---- MODULE Spec2Model ----
(***************************************************************************)
(* Verification model of the streamrip acquisition engine:                 *)
(*   - TidalClient._api_request / _refresh_access_token (client/tidal.py)  *)
(*   - Main.rip / Main.worker_loop / producers          (rip/main.py)      *)
(*   - Pending*.resolve, Track.download, Video.rip      (media/*.py)       *)
(***************************************************************************)
EXTENDS Integers, Sequences, FiniteSets, TLC

\* ------------------------------------------------------------------------
\* Bounds of the model
\* ------------------------------------------------------------------------
\* value passed as `retries` to _api_request (the program's default is 10)
Retries == 3
\* number of clock ticks explored
MaxTicks == 1
\* number of tokens the auth server hands out in one behaviour
MaxIssued == 2
\* Main.total_workers (the program runs 4 worker tasks)
total_workers == 2
\* number of items put on the job queue in one run
MaxItems == 3
\* number of pages after the first one in the longest listing explored
MaxExtraPages == 3
\* number of playlists of the user whose collection is downloaded
MaxPlaylists == 6
\* number of tasks that ask for the logged-in client at the same time
MaxLoginCallers == 4
\* number of tracks of the playlist that is downloaded
MaxTracks == 45
\* number of calls of the update callback of one progress task
MaxCallbacks == 5

\* ------------------------------------------------------------------------
\* Program constants
\* ------------------------------------------------------------------------
\* tidal.py:343  float(token_expiry) - time.time() > 600
SafetyMargin == 600
\* tidal.py:392 / 408  "attempt < 2"
RefreshAttempts == 2
\* tidal.py:57  0 < max_conn <= 12
MaxConn == 12
\* tidal.py:57  otherwise default to 2
DefaultConn == 2
\* tidal.py:87  login refreshes a token that expires within a day
LoginRefreshWindow == 86400
\* user.py:31  chunk_size = 5
chunk_size == 5
\* progress.py:66  self._batch_size = 5
batch_size == 5
\* progress.py:61  queue.Queue(maxsize=1000)
QueueMax == 1000
\* playlist.py:190  track_resolve_chunk_size = 20
track_resolve_chunk_size == 20
\* tidal.py:387  resp.headers.get("Retry-After", 10)
DefaultRetryAfter == 10
\* tidal.py:135 / 200 / 203  page size and offset stride of the listings
PageSize == 100

Callers == {"c1", "c2"}
NoOne == "nobody"

\* seconds by which one clock tick advances time.time()
TickSteps == {1200}
\* config.token_expiry as stored before the run (0 = unset)
InitExpiries == {0, 600, 1800}
\* "expires_in" values the token endpoint may answer
ExpiresIn == {600, 1800}
\* downloads.max_connections values of the configuration
MaxConnections == {-1, 0, 1, 2, 13}

\* outcomes of one session.get (tidal.py:385-406)
Statuses == {"200", "401", "404", "429", "error", "transport"}
\* outcomes of the token POST (tidal.py:351-363)
PostOutcomes == {"ok", "rejected", "transport", "no_access_token", "no_expires_in"}

VARIABLES
    now,            \* time.time()
    safe_conn,      \* size of TidalClient.semaphore
    semaphore,      \* free permits of TidalClient.semaphore
    auth_lock,      \* holder of TidalClient.auth_lock
    access_token,   \* config.access_token (generation number)
    token_expiry,   \* config.token_expiry
    authorization,  \* session.headers["authorization"] (generation number)
    issued,         \* last token generation the auth server handed out
    req,            \* per caller: the running _api_request / _refresh_access_token
    main_pc,        \* position of run_main: add_all, then the steps of Main.rip
    queue,          \* Main.queue: the items put and not yet got
    unfinished,     \* Main.queue._unfinished_tasks (what queue.join waits for)
    worker,         \* per worker_loop task: position and current item
    producer,       \* per _background_search_artist task: position
    status,         \* per item: the worker_status reported for it
    origin,         \* per item: who put it on the queue
    acked,          \* items for which queue.task_done was called
    submitted,      \* number of items put on the queue so far
    downloads,      \* Database.downloads: ids marked downloaded
    failed,         \* Database.failed: ids marked failed
    files,          \* destinations (one per job) whose file is on disk
    flac_downloaded,\* TidalClient._flac_downloaded
    job,            \* per job: one pending item being resolved and ripped
    listing,        \* the running _turbo_fetch_list / _fetch_pages_generator call
    stream,         \* the running get_artist_albums_stream call
    search,         \* Main._background_search_artist
    backoff,        \* the waits one request computed after its 429 responses
    user,           \* User.download over the playlists of one user
    downloadable,   \* one call of TidalClient.get_downloadable for a track
    login,          \* one call of TidalClient.login
    clients,        \* Main.clients[source] and the callers of get_logged_in_client
    playlist,       \* one call of Playlist.download
    progress        \* one task of ProgressManager and its update queue

apiVars == <<now, safe_conn, semaphore, auth_lock, access_token, token_expiry,
             authorization, issued, req>>

mainVars == <<main_pc, queue, unfinished, worker, producer, status, origin,
              acked, submitted>>

itemVars == <<downloads, failed, files, flac_downloaded, job>>

pageVars == <<listing, stream, search>>

auxVars == <<backoff, user>>

restVars == <<downloadable, login, clients, playlist, progress>>

vars == <<apiVars, mainVars, itemVars, pageVars, auxVars, restVars>>


\* ------------------------------------------------------------------------
\* TidalClient.__init__ (tidal.py:50-64)
\* ------------------------------------------------------------------------
\* mutant: the configured value is taken without the upper limit
SafeConnUncapped(max_conn) == IF 0 < max_conn THEN max_conn ELSE DefaultConn

SafeConn(max_conn) == IF 0 < max_conn /\ max_conn <= MaxConn THEN max_conn ELSE DefaultConn

\* a caller that has not called yet; hist/last = "off": its statuses are not recorded
IdleReq == [op |-> "none", pc |-> "idle", attempt |-> 0, calls |-> 0,
            hist |-> "off", last |-> "off", result |-> "none",
            ctx |-> "none", posts |-> 0, post |-> "none", stale |-> FALSE]

\* the same, with the statuses of its request recorded
TracedReq == [IdleReq EXCEPT !.hist = "none", !.last = "none"]

ClientInit ==
    /\ now = 0
    /\ \E m \in MaxConnections : safe_conn = SafeConn(m)
    /\ semaphore = safe_conn
    /\ auth_lock = NoOne
    /\ access_token = 0
    /\ token_expiry \in InitExpiries
    /\ authorization = 0
    /\ issued = 0

\* ------------------------------------------------------------------------
\* TidalClient._refresh_access_token (tidal.py:341-363)
\* ------------------------------------------------------------------------
\* mutant: the POST routed through _api_post, which takes a permit
PostPermitsViaApiPost == 1 + 0

\* mutant: the expiry is not looked at again under the lock
TokenFreshUnchecked == FALSE

\* lines 347-351: the POST goes through session.post and takes no permit of
\* self.semaphore (_api_post, line 366, would take one)
PostPermits == 0

\* line 343: the stored token is still valid for more than the safety margin
TokenFresh == token_expiry /= 0 /\ token_expiry - now > SafetyMargin

\* ------------------------------------------------------------------------
\* TidalClient._api_request (tidal.py:369-414)
\* ------------------------------------------------------------------------
\* mutant: for attempt in range(retries)
LastAttemptOffByOne(a) == a + 1 >= Retries

\* line 374: for attempt in range(retries + 1)
LastAttempt(a) == a = Retries

\* lines 392, 408: attempt < 2
MayRefresh(a) == a < RefreshAttempts

\* the calls a caller makes are counted for direct calls and for recorded requests
Recorded(r) == r.op = "refresh" \/ r.hist /= "off"

Count(r, n) == IF Recorded(r) THEN n + 1 ELSE n

\* history of the statuses one request has received
Hist(h, s) == IF h = "off" THEN "off" ELSE IF h = "none" \/ h = s THEN s ELSE "mixed"

\* the status of the latest response
Last(l, s) == IF l = "off" THEN "off" ELSE s

\* mutant: the loop goes round again without the attempt being counted
ContinueUncounted(r) == [r EXCEPT !.pc = "acquire"]

\* `continue` / falling out of the except block: the permit is released and the
\* loop goes on; after the last iteration line 414 raises "Connection failed."
Continue(r) ==
    IF LastAttempt(r.attempt)
    THEN [r EXCEPT !.pc = "done", !.result = "ConnectionFailed"]
    ELSE [r EXCEPT !.pc = "acquire", !.attempt = @ + 1]

Raise(r, err) == [r EXCEPT !.pc = "done", !.result = err]

\* lines 407-412: except Exception as e
Handler(r, err, has401) ==
    IF has401 /\ MayRefresh(r.attempt)
    THEN [r EXCEPT !.pc = "auth_lock", !.ctx = "handler"]
    ELSE IF LastAttempt(r.attempt)
         THEN Raise(r, err)
         ELSE Continue(r)

\* classification of one response (lines 385-406)
Classify(r, s, has401) ==
    CASE s = "200" -> [r EXCEPT !.pc = "done", !.result = "ok"]
      [] s = "429" -> [r EXCEPT !.pc = "sleep429"]
      [] s = "401" -> IF MayRefresh(r.attempt)
                      THEN [r EXCEPT !.pc = "auth_lock", !.ctx = "try"]
                      ELSE Handler(r, "Unauthorized", TRUE)
      [] s = "404" -> Handler(r, "NonStreamableError", FALSE)
      [] s = "error" -> Handler(r, "HTTPError", has401)
      [] s = "transport" -> [r EXCEPT !.pc = "sleep2"]

\* a permit is held exactly in these positions of _api_request
HoldsPermit(r) == r.op = "api" /\ r.pc \in {"get", "sleep429", "sleep2", "auth_lock", "post"}

Released(old, new) == IF HoldsPermit(old) /\ ~HoldsPermit(new) THEN 1 ELSE 0

Step(c, new, d) ==
    /\ req' = [req EXCEPT ![c] = new]
    /\ semaphore' = semaphore + Released(req[c], new) + d

\* lines 369-376: entry of _api_request
api_request_call(c) ==
    /\ UNCHANGED <<mainVars, itemVars, pageVars, auxVars, restVars>>
    /\ req[c].pc = "idle"
    /\ req' = [req EXCEPT ![c] = [@ EXCEPT !.op = "api", !.pc = "acquire"]]
    /\ UNCHANGED <<now, safe_conn, semaphore, auth_lock, access_token,
                   token_expiry, authorization, issued>>

\* lines 378-381: async with self.semaphore
api_request_acquire(c) ==
    /\ UNCHANGED <<mainVars, itemVars, pageVars, auxVars, restVars>>
    /\ req[c].op = "api" /\ req[c].pc = "acquire"
    /\ semaphore > 0
    /\ semaphore' = semaphore - 1
    /\ req' = [req EXCEPT ![c] = [@ EXCEPT !.pc = "get"]]
    /\ UNCHANGED <<now, safe_conn, auth_lock, access_token, token_expiry,
                   authorization, issued>>

\* lines 385-412: one session.get and the classification of its outcome
api_request_get(c) ==
    /\ UNCHANGED <<mainVars, itemVars, pageVars, auxVars, restVars>>
    /\ req[c].op = "api" /\ req[c].pc = "get"
    /\ \E s \in Statuses, has401 \in BOOLEAN :
         /\ (has401 => s = "error")
         /\ LET r == [req[c] EXCEPT !.calls = Count(req[c], @), !.last = Last(@, s),
                                    !.hist = Hist(@, s)]
            IN  /\ UNCHANGED <<now, safe_conn, auth_lock, access_token,
                               token_expiry, authorization, issued>>
                /\ Step(c, Classify(r, s, has401), 0)

\* lines 389-390 and 405-406: the sleep ends, `continue`
api_request_wake(c) ==
    /\ UNCHANGED <<mainVars, itemVars, pageVars, auxVars, restVars>>
    /\ req[c].op = "api" /\ req[c].pc \in {"sleep429", "sleep2"}
    /\ UNCHANGED <<now, safe_conn, auth_lock, access_token, token_expiry,
                   authorization, issued>>
    /\ Step(c, Continue(req[c]), 0)

\* the call is made on a session within the safety margin while no other call
\* of _refresh_access_token has returned
StaleAndConcurrent(c) ==
    ~TokenFresh /\ \A d \in Callers \ {c} : req[d].pc /= "done"

\* a direct call of _refresh_access_token (login, tidal.py:88)
refresh_access_token_call(c) ==
    /\ UNCHANGED <<mainVars, itemVars, pageVars, auxVars, restVars>>
    /\ req[c].pc = "idle"
    /\ req' = [req EXCEPT ![c] = [@ EXCEPT !.op = "refresh", !.pc = "auth_lock",
                                           !.ctx = "direct",
                                           !.stale = StaleAndConcurrent(c)]]
    /\ UNCHANGED <<now, safe_conn, semaphore, auth_lock, access_token,
                   token_expiry, authorization, issued>>

\* return of _refresh_access_token to the place that awaited it
RefreshReturn(r) ==
    CASE r.ctx = "direct" -> [r EXCEPT !.pc = "done", !.result = "ok"]
      [] r.ctx = "try" -> Continue(r)         \* line 394
      [] r.ctx = "handler" -> Continue(r)     \* line 410

\* _refresh_access_token raises (line 363) into the place that awaited it
RefreshRaise(r, outcome, has401) ==
    CASE r.ctx = "direct" -> Raise(r, "RefreshFailed")
      [] r.ctx = "try" ->
            IF outcome = "transport"
            THEN [r EXCEPT !.pc = "sleep2"]              \* caught at line 404
            ELSE Handler(r, "RefreshFailed", has401)       \* caught at line 407
      [] r.ctx = "handler" -> Raise(r, "RefreshFailed")    \* raised inside the handler

\* what the answer of the token endpoint means for the session
PostClass(outcome, e) ==
    IF outcome = "ok" THEN (IF e > SafetyMargin THEN "ok" ELSE "short") ELSE outcome

\* line 343 under the lock: no POST is needed
refresh_access_token_fresh(c) ==
    /\ UNCHANGED <<mainVars, itemVars, pageVars, auxVars, restVars>>
    /\ req[c].pc = "auth_lock"
    /\ auth_lock = NoOne
    /\ TokenFresh
    /\ UNCHANGED <<now, safe_conn, auth_lock, access_token, token_expiry,
                   authorization, issued>>
    /\ Step(c, RefreshReturn(req[c]), 0)

\* lines 342-351: the lock is taken, the expiry is checked, the POST is sent
refresh_access_token_enter(c) ==
    /\ UNCHANGED <<mainVars, itemVars, pageVars, auxVars, restVars>>
    /\ req[c].pc = "auth_lock"
    /\ auth_lock = NoOne
    /\ ~TokenFresh
    /\ semaphore >= PostPermits
    /\ auth_lock' = c
    /\ UNCHANGED <<now, safe_conn, access_token, token_expiry, authorization, issued>>
    /\ Step(c, [req[c] EXCEPT !.pc = "post", !.posts = Count(req[c], @)], 0 - PostPermits)

\* lines 351-363: the answer of the token endpoint
refresh_access_token_post(c) ==
    /\ UNCHANGED <<mainVars, itemVars, pageVars, auxVars, restVars>>
    /\ req[c].pc = "post"
    /\ auth_lock = c
    /\ auth_lock' = NoOne
    /\ UNCHANGED <<now, safe_conn>>
    /\ \E outcome \in PostOutcomes, e \in ExpiresIn, has401 \in BOOLEAN :
         /\ (has401 => outcome = "rejected")
         /\ (outcome \in {"ok", "no_expires_in"} => issued < MaxIssued)
         /\ LET r == [req[c] EXCEPT !.post = IF Recorded(req[c])
                                                THEN PostClass(outcome, e) ELSE @]
            IN CASE outcome = "ok" ->
                   /\ issued' = issued + 1
                   /\ access_token' = issued + 1
                   /\ token_expiry' = e + now
                   /\ authorization' = issued + 1
                   /\ Step(c, RefreshReturn(r), PostPermits)
              [] outcome = "no_expires_in" ->
                   /\ issued' = issued + 1
                   /\ access_token' = issued + 1
                   /\ UNCHANGED <<token_expiry, authorization>>
                   /\ Step(c, RefreshRaise(r, outcome, has401), PostPermits)
              [] OTHER ->
                   /\ UNCHANGED <<issued, access_token, token_expiry, authorization>>
                   /\ Step(c, RefreshRaise(r, outcome, has401), PostPermits)

\* time passes
Tick ==
    /\ UNCHANGED <<mainVars, itemVars, pageVars, auxVars, restVars>>
    /\ now < MaxTicks * 1200
    /\ \E d \in TickSteps : now' = now + d
    /\ UNCHANGED <<safe_conn, semaphore, auth_lock, access_token, token_expiry,
                   authorization, issued, req>>

\* ------------------------------------------------------------------------
\* Main (rip/main.py): job queue, workers, artist producers
\* ------------------------------------------------------------------------
Workers == 1..total_workers
Producers == {"p1"}
Items == 1..MaxItems
Terminal == {"Finished", "Skipped", "Error"}

\* Main.__init__ (main.py:105-108)
MainInit ==
    /\ main_pc = "add_all"
    /\ queue = <<>>
    /\ unfinished = 0
    /\ worker = [w \in Workers |-> [pc |-> "unborn", item |-> 0]]
    /\ producer = [p \in Producers |-> "none"]
    /\ status = [i \in Items |-> "none"]
    /\ origin = [i \in Items |-> "none"]
    /\ acked = {}
    /\ submitted = 0

\* asyncio.Queue.put: the item is appended and counted as unfinished
Put(who) ==
    /\ submitted < MaxItems
    /\ submitted' = submitted + 1
    /\ queue' = Append(queue, submitted + 1)
    /\ unfinished' = unfinished + 1
    /\ status' = [status EXCEPT ![submitted + 1] = "Queued"]
    /\ origin' = [origin EXCEPT ![submitted + 1] = who]

\* mutant: a path of the loop body leaves without task_done
TaskDoneForgotten(i) ==
    /\ unfinished' = unfinished
    /\ acked' = acked \cup {i}

\* asyncio.Queue.task_done, reached through `finally` (main.py:270-271)
TaskDone(i) ==
    /\ unfinished' = unfinished - 1
    /\ acked' = acked \cup {i}

\* main.py:150-154: add() of a url that is no Tidal artist
add(url) ==
    /\ main_pc = "add_all"
    /\ Put(url)
    /\ UNCHANGED <<main_pc, worker, producer, acked>>
    /\ UNCHANGED <<apiVars, itemVars, pageVars, auxVars, restVars>>

\* main.py:142-148: add() of a Tidal artist url starts a background producer
add_artist(p) ==
    /\ main_pc = "add_all"
    /\ producer[p] = "none"
    /\ producer' = [producer EXCEPT ![p] = "search"]
    /\ UNCHANGED <<main_pc, queue, unfinished, worker, status, origin, acked, submitted>>
    /\ UNCHANGED <<apiVars, itemVars, pageVars, auxVars, restVars>>

\* main.py:157-168: login and artist name lookup; an exception of the login
\* ends the producer (line 178)
background_search_artist_start(p) ==
    /\ producer[p] = "search"
    /\ \E ok \in BOOLEAN : producer' = [producer EXCEPT ![p] = IF ok THEN "stream" ELSE "done"]
    /\ UNCHANGED <<main_pc, queue, unfinished, worker, status, origin, acked, submitted>>
    /\ UNCHANGED <<apiVars, itemVars, pageVars, auxVars, restVars>>

\* main.py:170-176: one album of a batch is put on the queue
background_search_artist_put(p) ==
    /\ producer[p] = "stream"
    /\ Put(IF main_pc = "add_all" THEN "artist" ELSE "artist_late")
    /\ UNCHANGED <<main_pc, worker, producer, acked>>
    /\ UNCHANGED <<apiVars, itemVars, pageVars, auxVars, restVars>>

\* main.py:170 / 178: the stream ends, or an exception ends the producer
background_search_artist_end(p) ==
    /\ producer[p] = "stream"
    /\ producer' = [producer EXCEPT ![p] = "done"]
    /\ UNCHANGED <<main_pc, queue, unfinished, worker, status, origin, acked, submitted>>
    /\ UNCHANGED <<apiVars, itemVars, pageVars, auxVars, restVars>>

\* main.py:211: the worker tasks are created
rip_start ==
    /\ main_pc = "add_all"
    /\ main_pc' = "gather"
    /\ worker' = [w \in Workers |-> [pc |-> "get", item |-> 0]]
    /\ UNCHANGED <<queue, unfinished, producer, status, origin, acked, submitted>>
    /\ UNCHANGED <<apiVars, itemVars, pageVars, auxVars, restVars>>

\* mutant: rip() does not await the producer tasks
ProducersNotAwaited == TRUE

\* main.py:213-214: every producer task has ended
ProducersDone == \A p \in Producers : producer[p] \in {"none", "done"}

rip_gather ==
    /\ main_pc = "gather"
    /\ ProducersDone
    /\ main_pc' = "poll"
    /\ UNCHANGED <<queue, unfinished, worker, producer, status, origin, acked, submitted>>
    /\ UNCHANGED <<apiVars, itemVars, pageVars, auxVars, restVars>>

\* main.py:218-220: while not self.queue.empty()
rip_poll ==
    /\ main_pc = "poll"
    /\ queue = <<>>
    /\ main_pc' = "join"
    /\ UNCHANGED <<queue, unfinished, worker, producer, status, origin, acked, submitted>>
    /\ UNCHANGED <<apiVars, itemVars, pageVars, auxVars, restVars>>

\* mutant: the workers are cancelled as soon as the queue is empty
JoinedWhenEmpty == queue = <<>>

\* main.py:223: queue.join() returns when no put item is unfinished
Joined == unfinished = 0

\* w.cancel(): CancelledError is no Exception, only `finally` runs (main.py:270)
Cancelled(w) == [pc |-> "cancelled", item |-> worker[w].item]

CutShort == {worker[w].item : w \in {x \in Workers : worker[x].pc \notin {"get", "unborn"}}}

\* main.py:223-226: join, then every worker task is cancelled
rip_join ==
    /\ main_pc = "join"
    /\ Joined
    /\ main_pc' = "returned"
    /\ worker' = [w \in Workers |-> Cancelled(w)]
    /\ unfinished' = unfinished - Cardinality(CutShort)
    /\ acked' = acked \cup CutShort
    /\ UNCHANGED <<queue, producer, status, origin, submitted>>
    /\ UNCHANGED <<apiVars, itemVars, pageVars, auxVars, restVars>>

\* mutant: the exception leaves worker_loop and ends the worker task
Uncaught(w) == [pc |-> "dead", item |-> worker[w].item]

\* main.py:266-269: except Exception logs, sets the Error status and sleeps;
\* the worker task goes on
Caught(w) == [pc |-> "sleep", item |-> worker[w].item]

\* mutant: the item is read but stays on the queue
AfterGetPeeked(q) == q

\* asyncio.Queue.get removes the item it returns
AfterGet(q) == Tail(q)

\* main.py:235-243: queue.get hands the oldest item to this worker
worker_loop_get(w) ==
    /\ worker[w].pc = "get"
    /\ queue /= <<>>
    /\ queue' = AfterGet(queue)
    /\ worker' = [worker EXCEPT ![w] = [pc |-> "resolve", item |-> Head(queue)]]
    /\ status' = [status EXCEPT ![Head(queue)] = "Resolving"]
    /\ UNCHANGED <<main_pc, unfinished, producer, origin, acked, submitted>>
    /\ UNCHANGED <<apiVars, itemVars, pageVars, auxVars, restVars>>

\* main.py:245-271: pending_item.resolve() returns a media item, returns None
\* (Skipped, then task_done) or raises (Error, sleep 3)
worker_loop_resolve(w) ==
    /\ worker[w].pc = "resolve"
    /\ \E outcome \in {"media", "none", "raise"} :
         LET i == worker[w].item IN
         CASE outcome = "media" ->
                /\ worker' = [worker EXCEPT ![w].pc = "rip"]
                /\ status' = [status EXCEPT ![i] = "Downloading"]
                /\ UNCHANGED <<unfinished, acked>>
           [] outcome = "none" ->
                /\ worker' = [worker EXCEPT ![w] = [pc |-> "get", item |-> 0]]
                /\ status' = [status EXCEPT ![i] = "Skipped"]
                /\ TaskDone(i)
           [] outcome = "raise" ->
                /\ worker' = [worker EXCEPT ![w] = Caught(w)]
                /\ status' = [status EXCEPT ![i] = "Error"]
                /\ UNCHANGED <<unfinished, acked>>
    /\ UNCHANGED <<main_pc, queue, producer, origin, submitted>>
    /\ UNCHANGED <<apiVars, itemVars, pageVars, auxVars, restVars>>

\* main.py:258-269: media_item.rip() returns (Finished, sleep 0.5) or raises
\* (Error, sleep 3)
worker_loop_rip(w) ==
    /\ worker[w].pc = "rip"
    /\ \E ok \in BOOLEAN :
         status' = [status EXCEPT ![worker[w].item] = IF ok THEN "Finished" ELSE "Error"]
    /\ worker' = [worker EXCEPT ![w] = IF status'[worker[w].item] = "Error"
                                        THEN Caught(w)
                                        ELSE [pc |-> "sleep", item |-> worker[w].item]]
    /\ UNCHANGED <<main_pc, queue, unfinished, producer, origin, acked, submitted>>
    /\ UNCHANGED <<apiVars, itemVars, pageVars, auxVars, restVars>>

\* main.py:262/269-271: the sleep ends, finally: task_done, back to queue.get
worker_loop_task_done(w) ==
    /\ worker[w].pc = "sleep"
    /\ TaskDone(worker[w].item)
    /\ worker' = [worker EXCEPT ![w] = [pc |-> "get", item |-> 0]]
    /\ UNCHANGED <<main_pc, queue, producer, status, origin, submitted>>
    /\ UNCHANGED <<apiVars, itemVars, pageVars, auxVars, restVars>>

MainNext ==
    \/ add("url")
    \/ \E p \in Producers : add_artist(p)
    \/ \E p \in Producers : background_search_artist_start(p)
    \/ \E p \in Producers : background_search_artist_put(p)
    \/ \E p \in Producers : background_search_artist_end(p)
    \/ rip_start
    \/ rip_gather
    \/ rip_poll
    \/ rip_join
    \/ \E w \in Workers : worker_loop_get(w)
    \/ \E w \in Workers : worker_loop_resolve(w)
    \/ \E w \in Workers : worker_loop_rip(w)
    \/ \E w \in Workers : worker_loop_task_done(w)

\* ------------------------------------------------------------------------
\* Pending*.resolve, Track.download, Video.rip (media/track.py, playlist.py,
\* video.py) over the ledger (Database), the disk and the Tidal client
\* ------------------------------------------------------------------------
Jobs == {"j1", "j2"}
Ids == {"A", "B"}
Kinds == {"PendingTrack", "PendingSingle", "PendingPlaylistTrack", "PendingVideo"}

\* Database.downloaded / set_downloaded / set_failed (CompletionLedger)
db_downloaded(id) == id \in downloads
set_downloaded(id) == downloads \cup {id}
set_failed(id) == failed \cup {id}

NewJob(k, i, pre) ==
    [kind |-> k, id |-> i, preloaded |-> pre, pc |-> "queued",
     led0 |-> FALSE, file0 |-> FALSE, hybrid |-> FALSE,
     meta |-> "none", dl |-> "none", resolved |-> "none",
     xfers |-> 0, fail2 |-> FALSE, marked |-> FALSE,
     out |-> "none"]

\* the ledger and the disk as earlier runs left them; two pending items, which
\* may name the same id, each with its own destination
ItemInit ==
    /\ downloads \in SUBSET Ids
    /\ failed = {}
    /\ files \in SUBSET Jobs
    /\ flac_downloaded = {}
    /\ \E k1 \in Kinds, k2 \in Kinds, i2 \in Ids, p1 \in BOOLEAN, p2 \in BOOLEAN :
         /\ p1 => k1 = "PendingPlaylistTrack"
         /\ p2 => k2 = "PendingPlaylistTrack"
         /\ job = [j \in Jobs |-> IF j = "j1" THEN NewJob(k1, "A", p1)
                                             ELSE NewJob(k2, i2, p2)]

\* what one step does besides moving the job: ledger writes, file written,
\* id remembered by the client
Eff(rec) == [rec |-> rec, fail |-> FALSE, mark |-> FALSE, file |-> FALSE, flac |-> FALSE]

Apply(j, e) ==
    /\ job' = [job EXCEPT ![j] = [e.rec EXCEPT !.marked = @ \/ e.mark]]
    /\ failed' = IF e.fail THEN set_failed(job[j].id) ELSE failed
    /\ downloads' = IF e.mark THEN set_downloaded(job[j].id) ELSE downloads
    /\ files' = IF e.file THEN files \cup {j} ELSE files
    /\ flac_downloaded' = IF e.flac THEN flac_downloaded \cup {job[j].id}
                                    ELSE flac_downloaded

\* resolve() returns None: the caller reports the item skipped (main.py:264)
ReturnNone(r) == [r EXCEPT !.pc = "end", !.resolved = "None", !.out = "Skipped"]
\* resolve() raises: the caller reports an error (main.py:266-268)
ResolveRaises(r) == [r EXCEPT !.pc = "end", !.resolved = "raised", !.out = "Error"]
\* resolve() returns a Track or Video, which the caller rips (main.py:258)
ReturnMedia(r) == [r EXCEPT !.pc = "rip", !.resolved = "Media"]
\* rip() returns (main.py:261) or raises (main.py:266-268)
RipReturns(r) == [r EXCEPT !.pc = "end", !.out = "Finished"]
RipRaises(r) == [r EXCEPT !.pc = "end", !.out = "Error"]

\* get_downloadable ended with NonStreamableError: track.py:224-226 and 262-264
\* return None, track.py:341 and 387-390 let it propagate, playlist.py:150-153
\* mark the track failed, video.py:213-215 return None
OnStreamError(r) ==
    CASE r.kind = "PendingTrack" -> Eff(ReturnNone(r))
      [] r.kind = "PendingSingle" -> Eff(ResolveRaises(r))
      [] r.kind = "PendingPlaylistTrack" -> [Eff(ReturnNone(r)) EXCEPT !.fail = TRUE]
      [] r.kind = "PendingVideo" -> Eff(ReturnNone(r))

\* tidal.py:223-229: a track id already handed a stream in this process is
\* refused before any request is made
AlreadyDownloaded(r) == r.kind /= "PendingVideo" /\ r.id \in flac_downloaded

CallDownloadable(r) ==
    IF AlreadyDownloaded(r)
    THEN OnStreamError([r EXCEPT !.dl = "already"])
    ELSE Eff([r EXCEPT !.pc = "stream"])

\* playlist.py:131-142: the ledger and the disk are compared before any stream
\* is asked for
PlaylistTrackCheck(j, r) ==
    IF db_downloaded(r.id)
    THEN IF j \in files THEN Eff(ReturnNone(r)) ELSE CallDownloadable(r)
    ELSE IF j \in files
         THEN [Eff(ReturnNone(r)) EXCEPT !.mark = TRUE]
         ELSE CallDownloadable(r)

\* the metadata is there and well formed
AfterMetadata(j, r) ==
    IF r.kind = "PendingPlaylistTrack" THEN PlaylistTrackCheck(j, r)
    ELSE CallDownloadable(r)

\* the outcome of get_metadata and of the metadata constructors
\* (track.py:174-188, 243-257, 285-309, 354-378; playlist.py:78-97; video.py:198-215)
OnMetadata(j, r, outcome) ==
    CASE outcome = "NonStreamable" -> Eff(ReturnNone(r))
      [] outcome = "error" ->
            IF r.kind = "PendingVideo" THEN Eff(ReturnNone(r)) ELSE Eff(ResolveRaises(r))
      [] outcome = "bad" ->
            IF r.kind = "PendingPlaylistTrack" THEN Eff(ResolveRaises(r))
            ELSE Eff(ReturnNone(r))
      [] outcome = "empty" -> [Eff(ReturnNone(r)) EXCEPT !.fail = TRUE]
      [] outcome = "ok" -> AfterMetadata(j, r)

MetaOutcomes(r) ==
    IF r.kind = "PendingVideo" THEN {"ok", "NonStreamable", "error", "bad"}
    ELSE {"ok", "NonStreamable", "error", "bad", "empty"}

\* track.py:173 / 284: the branch taken when the ledger has the id
Hybrid(r) == r.kind \in {"PendingTrack", "PendingSingle"} /\ db_downloaded(r.id)

\* entry of resolve(): track.py:169-175 / 243-244, 282-286 / 354-355,
\* playlist.py:77-82, video.py:197-199
resolve_begin(j) ==
    /\ job[j].pc = "queued"
    /\ UNCHANGED <<apiVars, mainVars, pageVars, auxVars, restVars>>
    /\ LET r == [job[j] EXCEPT !.led0 = db_downloaded(job[j].id),
                               !.file0 = j \in files,
                               !.hybrid = Hybrid(job[j])]
       IN IF r.preloaded
          THEN \E shape \in {"ok", "bad", "empty"} :
                  Apply(j, OnMetadata(j, [r EXCEPT !.meta = IF shape = "ok" THEN "preloaded"
                                                                     ELSE shape], shape))
          ELSE Apply(j, Eff([r EXCEPT !.pc = "meta"]))

\* client.get_metadata answers
resolve_metadata(j) ==
    /\ job[j].pc = "meta"
    /\ UNCHANGED <<apiVars, mainVars, pageVars, auxVars, restVars>>
    /\ \E outcome \in MetaOutcomes(job[j]) :
         Apply(j, OnMetadata(j, [job[j] EXCEPT !.meta = outcome], outcome))

\* mutant: the hybrid branch builds the Track without looking for the file
OnStreamNoFileCheck(j, r) ==
    IF r.kind = "PendingPlaylistTrack" THEN ResolveRaises(r) ELSE ReturnMedia(r)

\* the item built once the stream is known: track.py:228-240 (file check of the
\* hybrid branch), track.py:272 and 391, playlist.py:155-163 (Track has no field
\* from_playlist: the constructor raises TypeError), video.py:206-212
OnStream(j, r) ==
    CASE r.kind \in {"PendingTrack", "PendingSingle"} ->
            IF r.hybrid /\ j \in files THEN ReturnNone(r) ELSE ReturnMedia(r)
      [] r.kind = "PendingPlaylistTrack" -> ResolveRaises(r)
      [] r.kind = "PendingVideo" -> ReturnMedia(r)

StreamOutcomes(r) ==
    IF r.kind = "PendingVideo" THEN {"ok", "NonStreamable", "error"}
    ELSE {"ok", "NonStreamable"}

\* client.get_downloadable answers (tidal.py:231-302, 304-329)
resolve_downloadable(j) ==
    /\ job[j].pc = "stream"
    /\ UNCHANGED <<apiVars, mainVars, pageVars, auxVars, restVars>>
    /\ \E outcome \in StreamOutcomes(job[j]) :
         LET r == [job[j] EXCEPT !.dl = outcome] IN
         CASE outcome = "ok" ->
                Apply(j, [Eff(OnStream(j, r)) EXCEPT !.flac = (r.kind /= "PendingVideo")])
           [] outcome = "NonStreamable" -> Apply(j, OnStreamError(r))
           [] outcome = "error" -> Apply(j, Eff(ReturnNone(r)))

\* Media.rip: preprocess, download, then postprocess
TrackAfterDownload(r) == [r EXCEPT !.pc = "post"]

\* track.py:46-57 and video.py:58-69: the file is looked for before any transfer;
\* when it is there the ledger is completed and nothing is transferred
Registered(j, r) ==
    [Eff(IF r.kind = "PendingVideo" THEN RipReturns(r) ELSE TrackAfterDownload(r))
       EXCEPT !.mark = ~db_downloaded(r.id)]

\* mutant: the transfer starts without looking for the file
FileNotLookedFor(j) == FALSE

\* os.path.isfile(self.download_path) (track.py:51, video.py:62)
FileFound(j) == j \in files

media_rip_begin(j) ==
    /\ job[j].pc = "rip"
    /\ UNCHANGED <<apiVars, mainVars, pageVars, auxVars, restVars>>
    /\ IF FileFound(j)
       THEN Apply(j, Registered(j, job[j]))
       ELSE Apply(j, Eff([job[j] EXCEPT !.pc = "xfer1"]))

\* mutant: the first failed transfer already marks the track failed
TrackTransferNoRetry(r, outcome) ==
    CASE outcome = "size_error" -> Eff(RipRaises(r))
      [] outcome = "ok" ->
            [Eff(TrackAfterDownload([r EXCEPT !.xfers = @ + 1])) EXCEPT !.file = TRUE]
      [] outcome = "fail" ->
            [Eff(TrackAfterDownload([r EXCEPT !.xfers = @ + 1])) EXCEPT !.fail = TRUE]

\* track.py:77-99: downloadable.size() is outside the try, download() inside;
\* the second failure marks the track failed and download() returns
TrackTransfer(r, outcome) ==
    CASE outcome = "size_error" -> Eff(RipRaises(r))
      [] outcome = "ok" ->
            [Eff(TrackAfterDownload([r EXCEPT !.xfers = @ + 1])) EXCEPT !.file = TRUE]
      [] outcome = "fail" ->
            IF r.pc = "xfer1"
            THEN Eff([r EXCEPT !.xfers = @ + 1, !.pc = "xfer2"])
            ELSE [Eff(TrackAfterDownload([r EXCEPT !.xfers = @ + 1, !.fail2 = TRUE]))
                    EXCEPT !.fail = TRUE]

\* video.py:83-114: size() and download() are both inside the try of each of
\* the two attempts; the second failure marks the video failed and download()
\* returns, after which rip() goes on to postprocess (video.py:69-70)
VideoTransfer(r, outcome) ==
    LET n == IF outcome = "size_error" THEN r.xfers ELSE r.xfers + 1 IN
    IF outcome = "ok"
    THEN [Eff([r EXCEPT !.xfers = n, !.pc = "post"]) EXCEPT !.file = TRUE]
    ELSE IF r.pc = "xfer1"
         THEN Eff([r EXCEPT !.xfers = n, !.pc = "xfer2"])
         ELSE [Eff([r EXCEPT !.xfers = n, !.pc = "post",
                             !.fail2 = (outcome = "fail" /\ n = 2)])
                 EXCEPT !.fail = TRUE]

media_transfer(j) ==
    /\ job[j].pc \in {"xfer1", "xfer2"}
    /\ UNCHANGED <<apiVars, mainVars, pageVars, auxVars, restVars>>
    /\ \E outcome \in {"ok", "fail", "size_error"} :
         IF job[j].kind = "PendingVideo"
         THEN Apply(j, VideoTransfer(job[j], outcome))
         ELSE Apply(j, TrackTransfer(job[j], outcome))

\* track.py:101-109: tag_file and the conversion may raise; otherwise the id
\* is marked downloaded
TrackPostprocess(r, ok) ==
    IF ok THEN [Eff(RipReturns(r)) EXCEPT !.mark = TRUE] ELSE Eff(RipRaises(r))

\* video.py:116-127: only the .ts conversion of a written file may raise;
\* _add_video_metadata returns when the file is missing; then the id is marked
\* downloaded
VideoPostprocess(r, ok) ==
    IF ok THEN [Eff(RipReturns(r)) EXCEPT !.mark = TRUE] ELSE Eff(RipRaises(r))

media_postprocess(j) ==
    /\ job[j].pc = "post"
    /\ UNCHANGED <<apiVars, mainVars, pageVars, auxVars, restVars>>
    /\ \E ok \in BOOLEAN :
         IF job[j].kind = "PendingVideo"
         THEN /\ (ok \/ j \in files)
              /\ Apply(j, VideoPostprocess(job[j], ok))
         ELSE Apply(j, TrackPostprocess(job[j], ok))

ItemNext ==
    \/ \E j \in Jobs : resolve_begin(j)
    \/ \E j \in Jobs : resolve_metadata(j)
    \/ \E j \in Jobs : resolve_downloadable(j)
    \/ \E j \in Jobs : media_rip_begin(j)
    \/ \E j \in Jobs : media_transfer(j)
    \/ \E j \in Jobs : media_postprocess(j)

\* no pending item is being processed
ItemIdle ==
    /\ downloads = {} /\ failed = {} /\ files = {} /\ flac_downloaded = {}
    /\ job = [j \in Jobs |-> NewJob("PendingTrack", "A", FALSE)]

\* ------------------------------------------------------------------------
\* The wait after a 429 response (tidal.py:386-389)
\* ------------------------------------------------------------------------
\* Retry-After header of the response: absent, or a number of seconds
RetryAfterHints == {<<>>, <<0>>, <<1>>, <<30>>}

\* line 387: random.randint(5, 10)
Jitters == {5, 10}

\* line 387: wait = int(resp.headers.get("Retry-After", 10)) + random.randint(5, 10)
Wait(hint, jitter, attempt) ==
    (IF hint /= <<>> THEN hint[1] ELSE DefaultRetryAfter) + jitter

BackoffIdle == [attempt |-> 0, waits |-> <<>>]

BackoffInit == backoff = BackoffIdle

\* lines 386-390: one more 429 for the request, in attempt backoff.attempt
rate_limited ==
    /\ backoff.attempt <= Retries
    /\ \E h \in RetryAfterHints, j \in Jitters :
         backoff' = [attempt |-> backoff.attempt + 1,
                     waits |-> Append(backoff.waits,
                                      [hint |-> h, jitter |-> j, attempt |-> backoff.attempt,
                                       wait |-> Wait(h, j, backoff.attempt)])]
    /\ UNCHANGED <<apiVars, mainVars, itemVars, pageVars, user, restVars>>

BackoffNext == rate_limited

\* ------------------------------------------------------------------------
\* User.download (user.py:24-44)
\* ------------------------------------------------------------------------
Playlists == 1..MaxPlaylists

\* the chunk a playlist falls in (user.py:31, 38-41, 49-52)
Chunk(p) == (p - 1) \div chunk_size

LastChunk == Chunk(MaxPlaylists)

\* a User media item that was resolved but not yet ripped
UserIdle == [pc |-> "idle", chunk |-> 0, pl |-> [p \in Playlists |-> "created"]]

\* lines 33-41: one coroutine per playlist is created, none is started
UserInit == user = [UserIdle EXCEPT !.pc = "gather"]

Running(u) == {p \in Playlists : u.pl[p] \in {"resolve", "rip"}}

\* lines 42-44: the coroutines of the next chunk are handed to asyncio.gather
user_gather(c) ==
    /\ user.pc = "gather" /\ user.chunk = c
    /\ \A p \in Playlists : Chunk(p) = c => user.pl[p] = "created"
    /\ user' = [user EXCEPT !.pc = "await",
                             !.pl = [p \in Playlists |->
                                        IF Chunk(p) = c THEN "resolve" ELSE user.pl[p]]]
    /\ UNCHANGED <<apiVars, mainVars, itemVars, pageVars, backoff, restVars>>

\* line 34 with playlist.py:227-238: item.resolve() returns a Playlist,
\* returns None, or raises what is not a NonStreamableError of get_metadata
playlist_resolve(p) ==
    /\ user.pl[p] = "resolve"
    /\ \E outcome \in {"rip", "skipped", "raised"} :
         user' = [user EXCEPT !.pl[p] = outcome]
    /\ UNCHANGED <<apiVars, mainVars, itemVars, pageVars, backoff, restVars>>

\* lines 35-36: playlist.rip() returns or raises
playlist_rip(p) ==
    /\ user.pl[p] = "rip"
    /\ \E outcome \in {"done", "raised"} :
         user' = [user EXCEPT !.pl[p] = outcome]
    /\ UNCHANGED <<apiVars, mainVars, itemVars, pageVars, backoff, restVars>>

\* line 44: asyncio.gather without return_exceptions hands the first
\* exception of the chunk to the awaiting download()
GatherRaises(u) == \E p \in Playlists : Chunk(p) = u.chunk /\ u.pl[p] = "raised"

\* line 44: the awaited gather is over: with an exception, which leaves
\* download() while the other coroutines of the chunk go on, or with every
\* coroutine of the chunk ended, after which the loop takes the next chunk
user_await ==
    /\ user.pc = "await"
    /\ UNCHANGED <<apiVars, mainVars, itemVars, pageVars, backoff, restVars>>
    /\ IF GatherRaises(user)
       THEN user' = [user EXCEPT !.pc = "raised"]
       ELSE /\ \A p \in Playlists : Chunk(p) = user.chunk => p \notin Running(user)
            /\ user' = IF user.chunk = LastChunk
                        THEN [user EXCEPT !.pc = "returned"]
                        ELSE [user EXCEPT !.pc = "gather", !.chunk = @ + 1]

UserNext ==
    \/ \E c \in 0..LastChunk : user_gather(c)
    \/ \E p \in Playlists : playlist_resolve(p)
    \/ \E p \in Playlists : playlist_rip(p)
    \/ user_await

\* ------------------------------------------------------------------------
\* TidalClient._turbo_fetch_list (tidal.py:185-212) and
\* TidalClient._fetch_pages_generator (tidal.py:123-144)
\* ------------------------------------------------------------------------
\* totalNumberOfItems of the listings explored
Totals == {0, 50, 100, 101, 237, PageSize * MaxExtraPages + 50}

MaxTotal == PageSize * MaxExtraPages + 50

\* the offsets a request may carry
AllOffsets == {o \in 0..MaxTotal : o % PageSize = 0}

\* the backend's answer to (offset, limit = 100): the items offset .. offset + 99
\* of the listing, the k-th item of which is the number k - 1
Page(total, o) ==
    [i \in 1..(IF total - o > PageSize THEN PageSize ELSE IF total > o THEN total - o ELSE 0)
        |-> o + i - 1]

\* mutant: range(100, total + 1, 100) without the early return
PageOffsetsInclusive(total) == {o \in AllOffsets : o >= PageSize /\ o <= total}

\* lines 200-203 / 135-137: `if total <= 100: return`, then
\* `for offset in range(100, total, 100)`
PageOffsets(total) ==
    IF total <= PageSize THEN {}
    ELSE {o \in AllOffsets : o >= PageSize /\ o < total}

ListingIdle ==
    [fn |-> "none", total |-> 0, contributors |-> FALSE, pc |-> "idle",
     first |-> "none", page |-> [o \in AllOffsets |-> "idle"],
     sent |-> [o \in AllOffsets |-> 0], order |-> <<>>, next |-> 0,
     items |-> <<>>, batches |-> 0, retried |-> FALSE, raised |-> FALSE]

\* a call about to be made, on a listing of `total` items
ListingInit ==
    \E f \in {"turbo", "generator"}, t \in Totals, ic \in BOOLEAN :
        listing = [ListingIdle EXCEPT !.fn = f, !.total = t, !.contributors = ic,
                                      !.pc = "call"]

Send(l, o) == [l EXCEPT !.sent[o] = @ + 1]

\* lines 186-189 / 124-127: the request for offset 0 is made
fetch_first_call ==
    /\ listing.pc = "call"
    /\ listing' = [Send(listing, 0) EXCEPT !.pc = "first"]
    /\ UNCHANGED <<apiVars, mainVars, itemVars, auxVars, stream, search, restVars>>

\* lines 198-204: the first page is kept; either it is the whole listing or
\* one request per further offset is created and all are awaited together
TurboAfterFirst(l) ==
    LET l1 == [l EXCEPT !.first = "ok", !.items = Page(l.total, 0)] IN
    IF PageOffsets(l.total) = {}
    THEN [l1 EXCEPT !.pc = "done"]
    ELSE [l1 EXCEPT !.pc = "gather",
                    !.page = [o \in AllOffsets |->
                                 IF o \in PageOffsets(l.total) THEN "sent" ELSE "idle"],
                    !.sent = [o \in AllOffsets |->
                                 IF o \in PageOffsets(l.total) THEN l.sent[o] + 1
                                 ELSE l.sent[o]]]

\* lines 189-196: the first request failed: it is repeated without
\* includeContributors when the parameters had it, otherwise [] is returned
turbo_first ==
    /\ listing.fn = "turbo" /\ listing.pc = "first"
    /\ UNCHANGED <<apiVars, mainVars, itemVars, auxVars, stream, search, restVars>>
    /\ \E ok \in BOOLEAN :
         listing' = IF ok THEN TurboAfterFirst(listing)
                    ELSE IF listing.contributors
                         THEN [Send(listing, 0) EXCEPT !.first = "failed", !.pc = "first_retry",
                                                       !.contributors = FALSE,
                                                       !.retried = TRUE]
                         ELSE [listing EXCEPT !.first = "failed", !.pc = "done"]

\* line 194: the repeated request is outside any try: its failure leaves
\* _turbo_fetch_list as an exception
turbo_first_retry ==
    /\ listing.fn = "turbo" /\ listing.pc = "first_retry"
    /\ UNCHANGED <<apiVars, mainVars, itemVars, auxVars, stream, search, restVars>>
    /\ \E ok \in BOOLEAN :
         listing' = IF ok THEN TurboAfterFirst(listing)
                    ELSE [listing EXCEPT !.pc = "done", !.raised = TRUE]

\* one of the gathered requests ends: with its page, with an exception, or
\* with an answer that has no "items"
turbo_page(o) ==
    /\ listing.fn = "turbo" /\ listing.pc = "gather"
    /\ listing.page[o] = "sent"
    /\ UNCHANGED <<apiVars, mainVars, itemVars, auxVars, stream, search, restVars>>
    /\ \E outcome \in {"ok", "failed", "noitems"} :
         listing' = [listing EXCEPT !.page[o] = outcome, !.order = Append(@, o)]

\* mutant: the pages are appended as they complete
GatheredAsCompleted(l) ==
    LET RECURSIVE Cat(_)
        Cat(q) == IF q = <<>> THEN <<>>
                  ELSE (IF l.page[Head(q)] = "ok" THEN Page(l.total, Head(q)) ELSE <<>>)
                       \o Cat(Tail(q))
    IN Cat(l.order)

\* lines 207-210: asyncio.gather returns the results in the order of the
\* tasks; the pages that are dicts with "items" are appended in that order
Gathered(l) ==
    LET RECURSIVE Cat(_)
        Cat(o) == IF o >= l.total THEN <<>>
                  ELSE (IF l.page[o] = "ok" THEN Page(l.total, o) ELSE <<>>)
                       \o Cat(o + PageSize)
    IN Cat(PageSize)

\* lines 206-211: every gathered request has ended
turbo_gather ==
    /\ listing.fn = "turbo" /\ listing.pc = "gather"
    /\ \A o \in AllOffsets : listing.page[o] /= "sent"
    /\ listing' = [listing EXCEPT !.pc = "done", !.items = @ \o Gathered(listing)]
    /\ UNCHANGED <<apiVars, mainVars, itemVars, auxVars, stream, search, restVars>>

\* lines 126-135: the generator ends on a failed first request; otherwise it
\* yields the first page and goes on only when total > 100
generator_first ==
    /\ listing.fn = "generator" /\ listing.pc = "first"
    /\ UNCHANGED <<apiVars, mainVars, itemVars, auxVars, stream, search, restVars>>
    /\ \E ok \in BOOLEAN :
         listing' =
            IF ~ok THEN [listing EXCEPT !.first = "failed", !.pc = "done"]
            ELSE LET l1 == [listing EXCEPT !.first = "ok", !.items = Page(listing.total, 0),
                                           !.batches = 1]
                 IN IF PageOffsets(listing.total) = {}
                    THEN [l1 EXCEPT !.pc = "done"]
                    ELSE [Send(l1, PageSize) EXCEPT !.pc = "pages", !.next = PageSize,
                                                     !.page[PageSize] = "sent"]

\* lines 137-144: the pages are requested one after the other; a page is
\* yielded when its answer has "items", a failed request is skipped
generator_page ==
    /\ listing.fn = "generator" /\ listing.pc = "pages"
    /\ UNCHANGED <<apiVars, mainVars, itemVars, auxVars, stream, search, restVars>>
    /\ \E outcome \in {"ok", "failed", "noitems"} :
         LET o == listing.next
             l1 == [listing EXCEPT !.page[o] = outcome, !.order = Append(@, o),
                                   !.items = IF outcome = "ok"
                                             THEN @ \o Page(listing.total, o) ELSE @,
                                   !.batches = IF outcome = "ok" THEN @ + 1 ELSE @]
         IN listing' =
              IF o + PageSize \in PageOffsets(listing.total)
              THEN [Send(l1, o + PageSize) EXCEPT !.next = o + PageSize,
                                                   !.page[o + PageSize] = "sent"]
              ELSE [l1 EXCEPT !.pc = "done"]

PageNext ==
    \/ fetch_first_call
    \/ turbo_first
    \/ turbo_first_retry
    \/ \E o \in AllOffsets : turbo_page(o)
    \/ turbo_gather
    \/ generator_first
    \/ generator_page

\* ------------------------------------------------------------------------
\* TidalClient.get_artist_albums_stream (tidal.py:94-121) consumed by
\* Main._background_search_artist (main.py:156-179)
\* ------------------------------------------------------------------------
\* lines 98-101: the two listing queries of an artist
Endpoints == {"albums", "epsandsingles"}

\* totalNumberOfItems of the two queries
StreamTotals == {0, 50, PageSize + 50}

\* line 96: sentinel = object(); the putting producer is kept for the proofs
Sentinel(p) == [p |-> p, o |-> -1]

Batch(p, o) == [p |-> p, o |-> o]

IsSentinel(x) == x.o = -1

\* lines 103-110: a producer task, not yet started
ProducerCreated(t) == [pc |-> "first", total |-> t, next |-> 0, raised |-> FALSE]

StreamIdle ==
    [pc |-> "idle", prod |-> [p \in Endpoints |-> ProducerCreated(0)],
     q |-> <<>>, log |-> <<>>, active |-> 0, out |-> <<>>]

\* lines 95-115: queue, one task per endpoint, active_producers = 2
StreamStarted(st) ==
    [pc |-> "running", prod |-> [p \in Endpoints |-> ProducerCreated(st.prod[p].total)],
     q |-> <<>>, log |-> <<>>, active |-> Cardinality(Endpoints), out |-> <<>>]

\* reqs: the _api_request calls made for each listing page of the artist
SearchIdle ==
    [pc |-> "idle", full |-> FALSE, listed |-> 0, put |-> 0,
     reqs |-> [p \in Endpoints |-> [o \in AllOffsets |-> 0]]]

\* tidal.py:127 / 141: self._api_request(endpoint, params=p) with p['offset'] = o
Fetch(s, p, o) == [s EXCEPT !.reqs[p][o] = @ + 1]

\* main.py:146: the search task is created for an artist whose two queries
\* list ta and te releases
StreamInit ==
    \E ta \in StreamTotals, te \in StreamTotals :
        /\ stream = [StreamIdle EXCEPT !.prod = [p \in Endpoints |->
                          ProducerCreated(IF p = "albums" THEN ta ELSE te)]]
        /\ search = [SearchIdle EXCEPT !.pc = "meta"]

\* main.py:161-170 with tidal.py:150, 177-181: get_metadata(artist_id,
\* "artist") requests the artist and then consumes a whole stream of its
\* own; when the request raises, `except: pass` goes on to the stream of
\* _background_search_artist
search_metadata ==
    /\ search.pc = "meta"
    /\ UNCHANGED <<apiVars, mainVars, itemVars, auxVars, listing, restVars>>
    /\ \E ok \in BOOLEAN :
         /\ search' = [search EXCEPT !.pc = IF ok THEN "meta_stream" ELSE "feed"]
         /\ stream' = StreamStarted(stream)

\* line 106: `if batch: await queue.put(batch)` on an unbounded queue
PutBatch(st, p, o) ==
    IF Len(Page(st.prod[p].total, o)) > 0
    THEN [st EXCEPT !.q = Append(@, Batch(p, o)), !.log = Append(@, Batch(p, o))]
    ELSE st

\* mutant: the sentinel is put at the end of the try block, not in finally
AfterProducerNoFinally(raised) == IF raised THEN "ended" ELSE "finally"

\* lines 107-110: whether the generator ended or raised, the producer goes
\* through `finally: await queue.put(sentinel)`
AfterProducer(raised) == "finally"

\* tidal.py:124-135: first request of a producer's generator.  A failed
\* request ends the generator; an answer that is not a dict makes resp.get
\* raise out of the generator into the producer's except clause
producer_first(p) ==
    /\ stream.pc = "running" /\ stream.prod[p].pc = "first"
    /\ UNCHANGED <<apiVars, mainVars, itemVars, auxVars, listing, restVars>>
    /\ search' = Fetch(search, p, 0)
    /\ \E outcome \in {"ok", "failed", "malformed"} :
         stream' =
            IF outcome = "ok"
            THEN LET st == PutBatch(stream, p, 0) IN
                 IF PageOffsets(stream.prod[p].total) = {}
                 THEN [st EXCEPT !.prod[p].pc = AfterProducer(FALSE)]
                 ELSE [st EXCEPT !.prod[p].pc = "pages", !.prod[p].next = PageSize]
            ELSE [stream EXCEPT !.prod[p].pc = AfterProducer(outcome = "malformed"),
                                !.prod[p].raised = (outcome = "malformed")]

\* tidal.py:137-144: the next page of a producer's generator
producer_page(p) ==
    /\ stream.pc = "running" /\ stream.prod[p].pc = "pages"
    /\ UNCHANGED <<apiVars, mainVars, itemVars, auxVars, listing, restVars>>
    /\ search' = Fetch(search, p, stream.prod[p].next)
    /\ \E outcome \in {"ok", "failed", "noitems"} :
         LET o  == stream.prod[p].next
             st == IF outcome = "ok" THEN PutBatch(stream, p, o) ELSE stream
         IN stream' =
              IF o + PageSize \in PageOffsets(stream.prod[p].total)
              THEN [st EXCEPT !.prod[p].next = o + PageSize]
              ELSE [st EXCEPT !.prod[p].pc = AfterProducer(FALSE)]

\* line 110: await queue.put(sentinel)
producer_finally(p) ==
    /\ stream.pc = "running" /\ stream.prod[p].pc = "finally"
    /\ stream' = [stream EXCEPT !.prod[p].pc = "ended",
                                 !.q = Append(@, Sentinel(p)),
                                 !.log = Append(@, Sentinel(p))]
    /\ UNCHANGED <<apiVars, mainVars, itemVars, auxVars, listing, search, restVars>>

\* lines 116-121: item = await queue.get(); a sentinel lowers
\* active_producers, anything else is yielded.  The consumer is
\* get_metadata (tidal.py:179-180, all_albums.extend) or
\* _background_search_artist (main.py:170-176, queue.put of PendingAlbum)
stream_get ==
    /\ stream.pc = "running" /\ stream.active > 0 /\ stream.q /= <<>>
    /\ UNCHANGED <<apiVars, mainVars, itemVars, auxVars, listing, restVars>>
    /\ LET item == Head(stream.q) IN
         IF IsSentinel(item)
         THEN /\ stream' = [stream EXCEPT !.q = Tail(@), !.active = @ - 1,
                                           !.pc = IF stream.active = 1 THEN "ended" ELSE @]
              /\ UNCHANGED search
         ELSE /\ stream' = [stream EXCEPT !.q = Tail(@), !.out = Append(@, item)]
              /\ search' = IF search.pc = "meta_stream"
                            THEN [search EXCEPT !.listed = @ + 1]
                            ELSE [search EXCEPT !.put = @ + 1]

\* the stream is exhausted: get_metadata returns and _background_search_artist
\* starts its own stream (main.py:170), or _background_search_artist ends
stream_end ==
    /\ stream.pc = "ended"
    /\ search.pc \in {"meta_stream", "feed"}
    /\ UNCHANGED <<apiVars, mainVars, itemVars, auxVars, listing, restVars>>
    /\ IF search.pc = "meta_stream"
       THEN /\ search' = [search EXCEPT !.pc = "feed", !.full = TRUE]
            /\ stream' = StreamStarted(stream)
       ELSE /\ search' = [search EXCEPT !.pc = "done"]
            /\ UNCHANGED stream

StreamNext ==
    \/ search_metadata
    \/ \E p \in Endpoints : producer_first(p)
    \/ \E p \in Endpoints : producer_page(p)
    \/ \E p \in Endpoints : producer_finally(p)
    \/ stream_get
    \/ stream_end

\* ------------------------------------------------------------------------
\* TidalClient.get_downloadable for a track (tidal.py:223-302)
\* ------------------------------------------------------------------------
\* tidal.py:38
QUALITY_PRIORITY == <<3, 2, 1, 0>>

\* mutant: the configured quality is not applied to the list
QualitiesUnfiltered(quality) == QUALITY_PRIORITY

\* lines 231-232: the qualities tried, highest first
Qualities(quality) ==
    LET qs == SelectSeq(QUALITY_PRIORITY, LAMBDA q : q <= quality) IN
    IF qs = <<>> THEN QUALITY_PRIORITY ELSE qs

\* the codec wanted in each of the two loops (lines 236, 270)
Wanted(phase) == IF phase = 1 THEN "flac" ELSE "m4a"

DownloadableIdle ==
    [pc |-> "idle", quality |-> 0, phase |-> 1, idx |-> 1, log |-> <<>>, result |-> "none"]

\* a call with the configured quality 0..3
DownloadableInit ==
    \E q \in 0..3 : downloadable = [DownloadableIdle EXCEPT !.pc = "v4", !.quality = q]

\* the entry of the request log: loop, quality, endpoint, and what the
\* request gave
Requested(d, ep, got) ==
    [d EXCEPT !.log = Append(@, [phase |-> d.phase, q |-> Qualities(d.quality)[d.idx],
                                  ep |-> ep, got |-> got])]

\* `continue` and the end of the loops: the next quality, then the second
\* loop, then line 302 raises NonStreamableError
NextTry(d) ==
    IF d.idx < Len(Qualities(d.quality))
    THEN [d EXCEPT !.pc = "v4", !.idx = @ + 1]
    ELSE IF d.phase = 1
         THEN [d EXCEPT !.pc = "v4", !.phase = 2, !.idx = 1]
         ELSE [d EXCEPT !.pc = "done", !.result = "NonStreamable"]

\* lines 247-262 / 281-296: the answer is decoded; a stream of the wanted
\* codec is returned, anything else (no url, another codec, a payload that
\* does not decode) goes on with the next try
Decoded(d, answer) ==
    IF answer = Wanted(d.phase)
    THEN [d EXCEPT !.pc = "done", !.result = answer]
    ELSE NextTry(d)

\* mutant: the legacy endpoint is asked whatever the v4 request gave
FallsBackAlways(v4failed) == TRUE

\* lines 242-245: `except:` around the v4 request alone
FallsBack(v4failed) == v4failed

\* lines 242-243: the v4 endpoint is requested
get_downloadable_v4 ==
    /\ downloadable.pc = "v4"
    /\ UNCHANGED <<apiVars, mainVars, itemVars, pageVars, auxVars, login, clients, playlist, progress>>
    /\ \E outcome \in {"flac", "m4a", "unusable", "fail"} :
         LET d == Requested(downloadable, "v4", outcome) IN
         downloadable' = IF FallsBack(outcome = "fail")
                         THEN [d EXCEPT !.pc = "legacy"]
                         ELSE Decoded(d, outcome)

\* lines 244-245, 264-267: the legacy endpoint is requested; its
\* NonStreamableError is raised again, any other exception is kept in
\* last_err and the loop goes on
get_downloadable_legacy ==
    /\ downloadable.pc = "legacy"
    /\ UNCHANGED <<apiVars, mainVars, itemVars, pageVars, auxVars, login, clients, playlist, progress>>
    /\ \E outcome \in {"flac", "m4a", "unusable", "fail", "NonStreamable"} :
         LET d == Requested(downloadable, "legacy", outcome) IN
         downloadable' =
            CASE outcome = "NonStreamable" -> [d EXCEPT !.pc = "done", !.result = "NonStreamable"]
              [] outcome = "fail" -> NextTry(d)
              [] OTHER -> Decoded(d, outcome)

DownloadableNext ==
    \/ get_downloadable_v4
    \/ get_downloadable_legacy

\* ------------------------------------------------------------------------
\* TidalClient.login (tidal.py:66-92)
\* ------------------------------------------------------------------------
\* seconds between time.time() at login and the stored token_expiry; 0 stands
\* for a configuration without token_expiry
StoredExpiries == {0} \cup {SafetyMargin * k : k \in -2..150}

\* nothing has called login(): no session exists
LoginIdle ==
    [pc |-> "idle", expiry |-> 0, access |-> FALSE, refresh |-> FALSE,
     bearer |-> "none", logged_in |-> FALSE, raised |-> FALSE]

\* a configuration with or without access token and refresh token
LoginInit ==
    \E e \in StoredExpiries, a \in BOOLEAN, r \in BOOLEAN :
        login = [LoginIdle EXCEPT !.pc = "login", !.expiry = e, !.access = a, !.refresh = r]

\* tidal.py:343 reached from line 89: the token is valid for more than the
\* safety margin, _refresh_access_token returns at once and login goes on to
\* line 92; the new session has only its User-Agent header (lines 71-77)
FreshReturn(l) == [l EXCEPT !.pc = "done", !.logged_in = TRUE]

\* lines 66-92: the session is created and the branch is chosen
login_call ==
    /\ login.pc = "login"
    /\ UNCHANGED <<apiVars, mainVars, itemVars, pageVars, auxVars, downloadable, clients, playlist, progress>>
    /\ login' =
         IF login.expiry < LoginRefreshWindow
         THEN IF login.refresh
              THEN IF login.expiry /= 0 /\ login.expiry > SafetyMargin
                   THEN FreshReturn(login)
                   ELSE [login EXCEPT !.pc = "post"]
              ELSE [login EXCEPT !.pc = "done", !.logged_in = TRUE]
         ELSE IF login.access
              THEN [login EXCEPT !.pc = "sessions"]
              ELSE [login EXCEPT !.pc = "done", !.logged_in = TRUE]

\* tidal.py:351-363: the token POST; on success the header is set from the
\* new token, on failure the exception leaves login()
login_refresh ==
    /\ login.pc = "post"
    /\ UNCHANGED <<apiVars, mainVars, itemVars, pageVars, auxVars, downloadable, clients, playlist, progress>>
    /\ \E ok \in BOOLEAN :
         login' = IF ok THEN [login EXCEPT !.pc = "done", !.logged_in = TRUE,
                                           !.bearer = "refreshed"]
                  ELSE [login EXCEPT !.pc = "done", !.raised = TRUE]

\* tidal.py:332-337: _login_by_access_token asks for the session and sets
\* the header from the configured token
login_by_access_token ==
    /\ login.pc = "sessions"
    /\ UNCHANGED <<apiVars, mainVars, itemVars, pageVars, auxVars, downloadable, clients, playlist, progress>>
    /\ \E ok \in BOOLEAN :
         login' = IF ok THEN [login EXCEPT !.pc = "done", !.logged_in = TRUE,
                                           !.bearer = "configured"]
                  ELSE [login EXCEPT !.pc = "done", !.raised = TRUE]

LoginNext ==
    \/ login_call
    \/ login_refresh
    \/ login_by_access_token

\* ------------------------------------------------------------------------
\* Main.get_logged_in_client (main.py:273-283)
\* ------------------------------------------------------------------------
\* the tasks that call get_logged_in_client: _background_search_artist of
\* each artist url (main.py:146, 158), add() itself (main.py:152)
LoginCallers == 1..MaxLoginCallers

ClientsIdle ==
    [logged_in |-> FALSE, sessions |-> 0, pc |-> [c \in LoginCallers |-> "idle"]]

\* main.py:274-282 with tidal.py:66-77: the flag is read; when it is not set
\* client.login() is awaited, which first creates a ClientSession
get_logged_in_client(c) ==
    /\ clients.pc[c] = "idle"
    /\ UNCHANGED <<apiVars, mainVars, itemVars, pageVars, auxVars, downloadable, login, playlist, progress>>
    /\ clients' = IF clients.logged_in
                   THEN [clients EXCEPT !.pc[c] = "returned"]
                   ELSE [clients EXCEPT !.pc[c] = "login", !.sessions = @ + 1]

\* tidal.py:87-92: the request awaited by login() ends; logged_in is set on
\* success, the exception leaves get_logged_in_client otherwise
client_login_end(c) ==
    /\ clients.pc[c] = "login"
    /\ UNCHANGED <<apiVars, mainVars, itemVars, pageVars, auxVars, downloadable, login, playlist, progress>>
    /\ \E ok \in BOOLEAN :
         clients' = IF ok THEN [clients EXCEPT !.pc[c] = "returned", !.logged_in = TRUE]
                    ELSE [clients EXCEPT !.pc[c] = "raised"]

ClientsNext ==
    \/ \E c \in LoginCallers : get_logged_in_client(c)
    \/ \E c \in LoginCallers : client_login_end(c)

\* ------------------------------------------------------------------------
\* Playlist.download (media/playlist.py:189-216)
\* ------------------------------------------------------------------------
\* the tracks of the playlist are numbered 1..total in the order of self.tracks
PlaylistSizes == 0..MaxTracks

\* mutant: the slice runs to the end of the list
SliceToEnd(ndx, total, n) == [i \in 1..(total - ndx) |-> ndx + i]

\* line 216: iterable[ndx : min(ndx + n, total)]
Slice(ndx, total, n) ==
    [i \in 1..((IF ndx + n < total THEN ndx + n ELSE total) - ndx) |-> ndx + i]

\* line 215: `for ndx in range(0, total, n)` has a next value
HasBatch(ndx, total) == ndx < total

\* batch: the slice at ndx; pending: coroutines of that slice gather still
\* waits for; gathered: the slices handed to gather so far; ended / raised:
\* tracks whose _resolve_download has ended / has caught an exception
PlaylistIdle ==
    [pc |-> "idle", total |-> 0, ndx |-> 0, batch |-> <<>>, pending |-> 0,
     gathered |-> <<>>, ended |-> 0, raised |-> 0]

\* a Playlist with `total` pending tracks
PlaylistInit ==
    \E total \in PlaylistSizes : playlist = [PlaylistIdle EXCEPT !.total = total]

\* lines 190-205: one coroutine object per track is created (none runs yet)
\* and the batch generator is made
playlist_download ==
    /\ playlist.pc = "idle"
    /\ playlist' = [playlist EXCEPT !.pc = "loop"]
    /\ UNCHANGED <<apiVars, mainVars, itemVars, pageVars, auxVars, downloadable, login, clients, progress>>

\* lines 207-208: the generator yields the next slice and gather starts one
\* task per coroutine of it; without a next slice download returns
playlist_gather ==
    /\ playlist.pc = "loop"
    /\ playlist' =
          IF HasBatch(playlist.ndx, playlist.total)
          THEN LET b == Slice(playlist.ndx, playlist.total, track_resolve_chunk_size)
               IN [playlist EXCEPT !.pc = "gather", !.batch = b, !.pending = Len(b),
                                   !.gathered = Append(@, b)]
          ELSE [playlist EXCEPT !.pc = "returned", !.batch = <<>>]
    /\ UNCHANGED <<apiVars, mainVars, itemVars, pageVars, auxVars, downloadable, login, clients, progress>>

\* lines 192-199: _resolve_download of one track of the slice ends: the track
\* was ripped, resolve returned None, or an exception was caught and logged
playlist_track_end ==
    /\ playlist.pc = "gather" /\ playlist.pending > 0
    /\ \E outcome \in {"ripped", "none", "raised"} :
         playlist' = [playlist EXCEPT !.pending = @ - 1, !.ended = @ + 1,
                                      !.raised = IF outcome = "raised" THEN @ + 1 ELSE @]
    /\ UNCHANGED <<apiVars, mainVars, itemVars, pageVars, auxVars, downloadable, login, clients, progress>>

\* lines 208-211: gather(return_exceptions=True) returns when every task of
\* the slice has ended; the loop asks the generator for the next slice
playlist_gather_return ==
    /\ playlist.pc = "gather" /\ playlist.pending = 0
    /\ playlist' = [playlist EXCEPT !.pc = "loop", !.ndx = @ + track_resolve_chunk_size]
    /\ UNCHANGED <<apiVars, mainVars, itemVars, pageVars, auxVars, downloadable, login, clients, progress>>

PlaylistNext ==
    \/ playlist_download
    \/ playlist_gather
    \/ playlist_track_end
    \/ playlist_gather_return

\* ------------------------------------------------------------------------
\* ProgressManager (progress.py): one task, its callback, the update worker
\* ------------------------------------------------------------------------
\* totals of the task (bytes) and the values the download passes to the callback
ProgressTotals == {20, 40}
CallbackValues == {-1, 1, 2, 5, 12, 20}

Min2(a, b) == IF a < b THEN a ELSE b
Max2(a, b) == IF a > b THEN a ELSE b

\* int(f * total) for f = pct / 100
Part(pct, total) == (pct * total) \div 100

\* lines 355-358: samples.append(max(0, int(x))); only the last six are kept
Sampled(samples, x) ==
    LET s == Append(samples, x)
    IN IF Len(s) > 6 THEN SubSeq(s, Len(s) - 5, Len(s)) ELSE s

SeqMin(s) == CHOOSE m \in {s[i] : i \in 1..Len(s)} : \A i \in 1..Len(s) : m <= s[i]
SeqMax(s) == CHOOSE m \in {s[i] : i \in 1..Len(s)} : \A i \in 1..Len(s) : m >= s[i]

\* _decide_mode (lines 350-374) over the samples that include x
decide_mode(samples, x, total) ==
    IF total <= 0 THEN "delta"
    ELSE IF x >= Part(25, total) THEN "absolute"
    ELSE IF Len(samples) >= 4
         THEN LET mn == SeqMin(samples)
                  mx == SeqMax(samples)
                  nondecreasing == \A i \in 1..(Len(samples) - 1) : samples[i] <= samples[i + 1]
              IN IF nondecreasing /\ mx >= Part(10, total) THEN "absolute"
                 ELSE IF mx < Part(20, total) /\ mx - mn < Part(5, total) THEN "delta"
                 ELSE "none"
         ELSE "none"

\* mode: _task_mode ("none" for None); last: _task_last; samples:
\* _task_samples; completed: task.completed of the rich task; q: _update_queue;
\* batch: the updates the worker has taken and not yet applied; enq: sum of
\* the advances put on the queue; calls: callbacks made
ProgressIdle ==
    [pc |-> "idle", total |-> 0, mode |-> "none", last |-> 0, samples |-> <<>>,
     completed |-> 0, q |-> <<>>, batch |-> <<>>, enq |-> 0, calls |-> 0]

ProgressInit ==
    \E total \in ProgressTotals : progress = [ProgressIdle EXCEPT !.total = total]

\* lines 382-386: the mode after this call
ModeNow(p, x) ==
    IF p.mode /= "none" THEN p.mode
    ELSE decide_mode(IF p.total <= 0 THEN p.samples ELSE Sampled(p.samples, x), x, p.total)

\* lines 388-395: the advance before the limit
RawAdvance(p, x, mode) ==
    IF mode \in {"none", "delta"} THEN x ELSE Max2(x - p.last, 0)

\* lines 397-406: the advance is limited by total - task.completed, the
\* progress the worker has applied so far
Limited(advance, total, completed) ==
    IF total > 0 THEN Min2(advance, Max2(total - completed, 0)) ELSE advance

\* _compute_advance (lines 376-411) for the value x
compute_advance(p, x) == Limited(RawAdvance(p, x, ModeNow(p, x)), p.total, p.completed)

\* get_callback (lines 415-454): the task is added and its state initialised
get_callback ==
    /\ progress.pc = "idle"
    /\ progress' = [progress EXCEPT !.pc = "running"]
    /\ UNCHANGED <<apiVars, mainVars, itemVars, pageVars, auxVars, downloadable, login, clients, playlist>>

\* _callback_update (lines 456-472) with _compute_advance: a positive advance
\* is put on the queue unless the queue is full
callback_update(v) ==
    /\ progress.pc = "running" /\ progress.calls < MaxCallbacks
    /\ LET x    == Max2(0, v)
           mode == ModeNow(progress, x)
           adv  == compute_advance(progress, x)
           put  == adv > 0 /\ Len(progress.q) < QueueMax
       IN progress' =
            [progress EXCEPT
               !.calls = @ + 1,
               !.samples = IF progress.mode = "none" /\ progress.total > 0
                           THEN Sampled(@, x) ELSE @,
               !.mode = mode,
               !.last = IF mode = "absolute" THEN x ELSE @,
               !.q = IF put THEN Append(@, adv) ELSE @,
               !.enq = IF put THEN @ + adv ELSE @]
    /\ UNCHANGED <<apiVars, mainVars, itemVars, pageVars, auxVars, downloadable, login, clients, playlist>>

\* _update_worker_loop (lines 129-162): the worker thread takes the first
\* update and up to batch_size - 1 more that are queued at that moment
update_worker_get ==
    /\ progress.batch = <<>> /\ progress.q /= <<>>
    /\ \E k \in 1..Min2(batch_size, Len(progress.q)) :
         progress' = [progress EXCEPT !.batch = SubSeq(progress.q, 1, k),
                                      !.q = SubSeq(progress.q, k + 1, Len(progress.q))]
    /\ UNCHANGED <<apiVars, mainVars, itemVars, pageVars, auxVars, downloadable, login, clients, playlist>>

\* _process_updates_batch (lines 164-177): progress.update(task_id,
\* advance=advance) for the next update of the batch
process_update ==
    /\ progress.batch /= <<>>
    /\ progress' = [progress EXCEPT !.completed = @ + Head(progress.batch),
                                    !.batch = Tail(@)]
    /\ UNCHANGED <<apiVars, mainVars, itemVars, pageVars, auxVars, downloadable, login, clients, playlist>>

ProgressNext ==
    \/ get_callback
    \/ \E v \in CallbackValues : callback_update(v)
    \/ update_worker_get
    \/ process_update

RestIdle == downloadable = DownloadableIdle /\ login = LoginIdle /\ clients = ClientsIdle /\ playlist = PlaylistIdle /\ progress = ProgressIdle

PageIdleButUser ==
    /\ listing = ListingIdle /\ stream = StreamIdle /\ search = SearchIdle
    /\ backoff = BackoffIdle

\* no listing is being fetched
PageIdle ==
    /\ listing = ListingIdle /\ stream = StreamIdle /\ search = SearchIdle
    /\ backoff = BackoffIdle /\ user = UserIdle
    /\ RestIdle

ApiInit ==
    /\ ClientInit
    /\ MainInit
    /\ ItemIdle
    /\ PageIdle
    /\ req = [c \in Callers |-> IdleReq]

RetryInit ==
    /\ ClientInit
    /\ MainInit
    /\ ItemIdle
    /\ PageIdle
    /\ req = [c \in Callers |-> IF c = "c1" THEN TracedReq ELSE IdleReq]

ApiNext ==
    \/ \E c \in Callers : api_request_call(c)
    \/ \E c \in Callers : api_request_acquire(c)
    \/ \E c \in Callers : api_request_get(c)
    \/ \E c \in Callers : api_request_wake(c)
    \/ \E c \in Callers : refresh_access_token_call(c)
    \/ \E c \in Callers : refresh_access_token_fresh(c)
    \/ \E c \in Callers : refresh_access_token_enter(c)
    \/ \E c \in Callers : refresh_access_token_post(c)
    \/ Tick

SpecApi == ApiInit /\ [][ApiNext]_vars

RetryNext ==
    \/ api_request_call("c1")
    \/ \E c \in Callers : api_request_acquire(c)
    \/ \E c \in Callers : api_request_get(c)
    \/ \E c \in Callers : api_request_wake(c)
    \/ refresh_access_token_call("c2")
    \/ \E c \in Callers : refresh_access_token_fresh(c)
    \/ \E c \in Callers : refresh_access_token_enter(c)
    \/ \E c \in Callers : refresh_access_token_post(c)
    \/ Tick

\* one request whose statuses are recorded, next to a direct refresh call
SpecRetry == RetryInit /\ [][RetryNext]_vars

\* the client is constructed but makes no request
ClientIdle ==
    /\ now = 0 /\ safe_conn = DefaultConn /\ semaphore = DefaultConn
    /\ auth_lock = NoOne /\ access_token = 0 /\ token_expiry = 0
    /\ authorization = 0 /\ issued = 0
    /\ req = [c \in Callers |-> IdleReq]

\* run_main with an idle client: only Main acts
MainRunInit == MainInit /\ ClientIdle /\ ItemIdle /\ PageIdle

SpecMain == MainRunInit /\ [][MainNext]_vars

\* pending items resolved and ripped one step at a time
ItemRunInit == ItemInit /\ ClientIdle /\ MainInit /\ PageIdle

SpecItem == ItemRunInit /\ [][ItemNext]_vars

\* C5: rip() returns only after every item ever put on the queue, those of the
\* background artist producers included, was taken by a worker and reached
\* Finished, Skipped or Error; as many terminal outcomes as submitted items
C5_QueueDrain ==
    main_pc = "returned" =>
        /\ queue = <<>>
        /\ unfinished = 0
        /\ \A i \in 1..submitted : status[i] \in Terminal /\ i \in acked
        /\ Cardinality({i \in Items : status[i] \in Terminal}) = submitted

C5_Witness ==
    /\ main_pc = "returned"
    /\ submitted = MaxItems
    /\ \E i \in Items : origin[i] = "artist_late"
    /\ \E i \in Items : origin[i] = "url"

\* the workers that hold item i between queue.get and task_done
Holders(i) == {w \in Workers : worker[w].item = i /\ worker[w].pc \in {"resolve", "rip", "sleep"}}

\* C26: every item put on the job queue is at any time in exactly one place:
\* waiting on the queue once, held by exactly one worker, or done with; so it
\* is never held by two workers, never taken again, and never lost.
C26_ExactlyOneWorker ==
    /\ \A i \in 1..submitted :
          Cardinality({k \in 1..Len(queue) : queue[k] = i}) + Cardinality(Holders(i))
             + (IF i \in acked THEN 1 ELSE 0) = 1
    /\ \A i \in Items \ (1..submitted) :
          /\ Holders(i) = {} /\ i \notin acked
          /\ \A k \in 1..Len(queue) : queue[k] /= i

\* two workers hold two different items while a third item is already done with
C26_Witness ==
    /\ submitted = MaxItems
    /\ \E w1, w2 \in Workers :
          /\ w1 /= w2
          /\ Holders(worker[w1].item) = {w1}
          /\ Holders(worker[w2].item) = {w2}
    /\ acked /= {}

\* C28: rip() cancels the worker tasks only after queue.join() has returned,
\* and at that moment every worker is waiting in queue.get with no item in
\* hand: a cancelled worker never held an item that was being resolved or
\* downloaded.
C28_CancelledWhenIdle ==
    /\ [][(main_pc = "join" /\ main_pc' = "returned") =>
            /\ unfinished = 0
            /\ \A w \in Workers : worker[w].pc = "get" /\ worker[w].item = 0]_vars
    /\ [](\A w \in Workers :
            worker[w].pc = "cancelled" => (main_pc = "returned" /\ worker[w].item = 0))

\* the workers were cancelled after they had finished, skipped and failed items
C28_Witness ==
    /\ \A w \in Workers : worker[w].pc = "cancelled"
    /\ \E i \in Items : status[i] = "Finished"
    /\ \E i \in Items : status[i] = "Skipped"
    /\ \E i \in Items : status[i] = "Error"

\* one listing call with an idle client
PageRunInit ==
    /\ ListingInit /\ stream = StreamIdle /\ search = SearchIdle /\ backoff = BackoffIdle
    /\ user = UserIdle
    /\ RestIdle
    /\ ClientIdle /\ MainInit /\ ItemIdle

SpecPages == PageRunInit /\ [][PageNext]_vars

\* one artist search with an idle client
StreamRunInit ==
    /\ StreamInit /\ listing = ListingIdle /\ backoff = BackoffIdle
    /\ user = UserIdle
    /\ RestIdle
    /\ ClientIdle /\ MainInit /\ ItemIdle

SpecStream == StreamRunInit /\ [][StreamNext]_vars

\* the event loop runs every task that can run
StreamFairness ==
    /\ WF_vars(search_metadata)
    /\ \A p \in Endpoints : WF_vars(producer_first(p))
    /\ \A p \in Endpoints : WF_vars(producer_page(p))
    /\ \A p \in Endpoints : WF_vars(producer_finally(p))
    /\ WF_vars(stream_get)
    /\ WF_vars(stream_end)

SpecStreamFair == SpecStream /\ StreamFairness

\* one request answered 429 again and again
BackoffRunInit ==
    /\ BackoffInit /\ listing = ListingIdle /\ stream = StreamIdle /\ search = SearchIdle
    /\ user = UserIdle
    /\ RestIdle
    /\ ClientIdle /\ MainInit /\ ItemIdle

SpecBackoff == BackoffRunInit /\ [][BackoffNext]_vars

\* the rip of one User item
UserRunInit == UserInit /\ PageIdleButUser /\ RestIdle /\ ClientIdle /\ MainInit /\ ItemIdle

SpecUser == UserRunInit /\ [][UserNext]_vars

\* C30: one playlist of a user whose resolve() or rip() raises does not keep
\* the others from being processed: once download() is over and no playlist
\* is being processed any more, every playlist of the user, those of later
\* chunks included, has been resolved.
C30_UserBatchGoesOn ==
    (user.pc \in {"returned", "raised"} /\ Running(user) = {})
        => \A p \in Playlists : user.pl[p] /= "created"

\* one call of get_downloadable
DownloadableRunInit ==
    /\ DownloadableInit
    /\ login = LoginIdle
    /\ clients = ClientsIdle
    /\ playlist = PlaylistIdle
    /\ progress = ProgressIdle
    /\ PageIdleButUser /\ user = UserIdle /\ ClientIdle /\ MainInit /\ ItemIdle

SpecDownloadable == DownloadableRunInit /\ [][DownloadableNext]_vars

\* one call of login()
LoginRunInit ==
    /\ LoginInit
    /\ downloadable = DownloadableIdle
    /\ clients = ClientsIdle
    /\ playlist = PlaylistIdle
    /\ progress = ProgressIdle
    /\ PageIdleButUser /\ user = UserIdle /\ ClientIdle /\ MainInit /\ ItemIdle

SpecLogin == LoginRunInit /\ [][LoginNext]_vars

\* C32: when login() has returned with logged_in set for a configuration
\* that holds an access token and a refresh token, the session carries a
\* bearer token, whatever the stored expiry.
C32_LoggedInHasBearer ==
    (login.pc = "done" /\ login.logged_in /\ login.access /\ login.refresh)
        => login.bearer /= "none"

\* several tasks asking for the client of one source
ClientsRunInit ==
    /\ clients = ClientsIdle
    /\ downloadable = DownloadableIdle /\ login = LoginIdle
    /\ playlist = PlaylistIdle
    /\ progress = ProgressIdle
    /\ PageIdleButUser /\ user = UserIdle /\ ClientIdle /\ MainInit /\ ItemIdle

SpecClients == ClientsRunInit /\ [][ClientsNext]_vars

\* one playlist being downloaded
PlaylistRunInit ==
    /\ PlaylistInit
    /\ downloadable = DownloadableIdle /\ login = LoginIdle /\ clients = ClientsIdle
    /\ progress = ProgressIdle
    /\ PageIdleButUser /\ user = UserIdle /\ ClientIdle /\ MainInit /\ ItemIdle

SpecPlaylist == PlaylistRunInit /\ [][PlaylistNext]_vars

\* one progress task fed by the callback of one download
ProgressRunInit ==
    /\ ProgressInit
    /\ downloadable = DownloadableIdle /\ login = LoginIdle /\ clients = ClientsIdle
    /\ playlist = PlaylistIdle
    /\ PageIdleButUser /\ user = UserIdle /\ ClientIdle /\ MainInit /\ ItemIdle

SpecProgress == ProgressRunInit /\ [][ProgressNext]_vars

\* C33: however many tasks call get_logged_in_client before the first login
\* has finished, login() runs at most once while no login has failed, and at
\* most one ClientSession is created for the client.
C33_SingleLogin ==
    /\ Cardinality({c \in LoginCallers : clients.pc[c] = "login"}) <= 1
    /\ (\A c \in LoginCallers : clients.pc[c] /= "raised") => clients.sessions <= 1

\* fairness: run_main calls rip() after add_all, the event loop runs every task
\* that can run, and resolve(), rip() and the artist stream each end
MainFairness ==
    /\ WF_vars(rip_start) /\ WF_vars(rip_gather) /\ WF_vars(rip_poll) /\ WF_vars(rip_join)
    /\ \A p \in Producers : /\ WF_vars(background_search_artist_start(p))
                             /\ WF_vars(background_search_artist_end(p))
    /\ \A w \in Workers : /\ WF_vars(worker_loop_get(w))
                           /\ WF_vars(worker_loop_resolve(w))
                           /\ WF_vars(worker_loop_rip(w))
                           /\ WF_vars(worker_loop_task_done(w))

SpecMainFair == SpecMain /\ MainFairness

\* C11: an exception raised by resolve() or rip() of one item is caught by the
\* worker, which stays alive until rip() cancels it, and every submitted item,
\* the remaining ones included, reaches Finished, Skipped or Error
C11_Isolation ==
    /\ [](\A w \in Workers : main_pc \in {"gather", "poll", "join"} =>
                                worker[w].pc \in {"get", "resolve", "rip", "sleep"})
    /\ \A i \in Items :
          (status[i] = "Error") ~>
              (main_pc = "returned" /\ \A k \in 1..submitted : status[k] \in Terminal)

\* more items than workers all ended in Error: some worker took another item
\* after the exception it caught
C11_Witness ==
    /\ main_pc = "returned"
    /\ submitted > total_workers
    /\ \A i \in 1..submitted : status[i] = "Error" /\ i \in acked

\* items put on the queue whose processing has not finished: still queued, or
\* held by a worker inside its loop body
InProgress ==
    {i \in 1..submitted : (\E k \in 1..Len(queue) : queue[k] = i) \/ Holders(i) /= {}}

\* C34: every worker calls task_done exactly once for each item it got, on the
\* success, skip and exception paths alike: the queue's unfinished count is
\* always the number of enqueued items whose processing has not finished, the
\* acknowledged items are exactly the others, and the count is never negative
C34_TaskDoneOnce ==
    /\ unfinished = Cardinality(InProgress)
    /\ unfinished >= 0
    /\ acked = (1..submitted) \ InProgress

\* a run that returned after one item finished, one was skipped and one raised
C34_Witness ==
    /\ main_pc = "returned"
    /\ unfinished = 0
    /\ \E i, j, k \in 1..submitted :
         status[i] = "Finished" /\ status[j] = "Skipped" /\ status[k] = "Error"

\* fairness: the event loop runs every task that can run, and every HTTP call
\* ends (ClientTimeout, tidal.py:69 and :385)
ApiFairness ==
    \A c \in Callers :
        /\ WF_vars(api_request_acquire(c))
        /\ WF_vars(api_request_get(c))
        /\ WF_vars(api_request_wake(c))
        /\ WF_vars(refresh_access_token_fresh(c))
        /\ WF_vars(refresh_access_token_enter(c))
        /\ WF_vars(refresh_access_token_post(c))

SpecApiFair == SpecApi /\ ApiFairness

\* ------------------------------------------------------------------------
\* Properties of _api_request and _refresh_access_token
\* ------------------------------------------------------------------------
TotalPosts == LET RECURSIVE Sum(_)
                  Sum(S) == IF S = {} THEN 0
                            ELSE LET c == CHOOSE x \in S : TRUE
                                 IN req[c].posts + Sum(S \ {c})
              IN Sum(Callers)

\* C1: a 404 response ends the call on that attempt with NonStreamableError and
\* no further HTTP attempt is made (one HTTP call when the first response is 404)
C1_NotFoundIsTerminal ==
    \A c \in Callers :
        /\ req[c].last = "404" =>
              (req[c].pc = "done" /\ req[c].result = "NonStreamableError")
        /\ req[c].hist = "404" => req[c].calls = 1

\* C2 as stated: a request whose every attempt fails with a transport error ends
\* after exactly `retries` HTTP attempts
C2_ExactlyRetriesAttempts ==
    \A c \in Callers :
        (req[c].pc = "done" /\ req[c].hist = "transport") => req[c].calls = Retries

\* C2 amended: such a request ends with a terminal error after exactly
\* retries + 1 HTTP attempts, and no request ever makes more than retries + 1
C2_RetryTermination ==
    \A c \in Callers :
        /\ req[c].calls <= Retries + 1
        /\ req[c].hist = "transport" /\ req[c].calls = Retries + 1 =>
              req[c].pc \in {"sleep2", "done"}
        /\ (req[c].pc = "done" /\ req[c].hist = "transport") =>
              (req[c].calls = Retries + 1 /\ req[c].result = "ConnectionFailed")

C2_Witness ==
    \E c \in Callers : req[c].pc = "done" /\ req[c].hist = "transport"

\* every caller called _refresh_access_token on a stale session while no other
\* call had returned, and all of them have returned
AllRefreshed ==
    \A c \in Callers : req[c].op = "refresh" /\ req[c].pc = "done" /\ req[c].stale

\* C3 as stated: N concurrent callers on an expiring session cause exactly one
\* POST, never two in flight, and all leave with the refreshed token
C3_ExactlyOneRefresh ==
    /\ Cardinality({c \in Callers : req[c].pc = "post"}) <= 1
    /\ AllRefreshed =>
          (TotalPosts = 1 /\ issued = 1 /\ authorization = 1 /\ access_token = 1)

\* no POST failed or answered a lifetime within the safety margin
NoBadPost == \A c \in Callers : req[c].post \in {"none", "ok"}

\* less time has passed than a refreshed token stays outside the safety margin
WithinLifetime == \A e \in ExpiresIn : e > SafetyMargin => now < e - SafetyMargin

\* C3 amended: at most one POST is in flight at any time; when the POST succeeds
\* with a lifetime above the safety margin and the other callers take the lock
\* before that margin is reached again, exactly one POST is made and the
\* session ends with the refreshed token
C3_SingleFlight ==
    /\ Cardinality({c \in Callers : req[c].pc = "post"}) <= 1
    /\ (AllRefreshed /\ NoBadPost /\ WithinLifetime) =>
          (TotalPosts = 1 /\ issued = 1 /\ authorization = 1 /\ access_token = 1
           /\ \A c \in Callers : req[c].result = "ok")

C3_Witness == AllRefreshed /\ NoBadPost /\ WithinLifetime

\* a request that waits for, or performs, the credential refresh with its permit held
Blocked(c) == req[c].op = "api" /\ req[c].pc \in {"auth_lock", "post"}

\* every permit is held by a request that got 401 and is in the refresh
Saturated ==
    /\ semaphore = 0
    /\ \A c \in Callers : HoldsPermit(req[c]) => Blocked(c)

\* C4: the refresh takes no permit, so from the state where every permit is held
\* by requests waiting for the refresh, the refresh completes and every such
\* request resumes
C4_RefreshOutsidePool ==
    \A c \in Callers : (Saturated /\ Blocked(c)) ~> ~Blocked(c)

C4_Witness ==
    /\ Saturated
    /\ \E c \in Callers : Blocked(c) /\ req[c].pc = "auth_lock"
    /\ \E c \in Callers : req[c].pc = "post"

\* the requests that are inside one HTTP attempt
InAttempt == {c \in Callers : req[c].op = "api" /\ req[c].pc = "get"}

\* the request sleeps after 429 or a transport error, or waits for the refresh
Waiting(c) ==
    req[c].op = "api" /\ req[c].pc \in {"sleep429", "sleep2", "auth_lock", "post"}

\* C12: a caller holds no permit while it sleeps for the 429 backoff or the
\* transport-error delay or waits for the credential refresh: whenever a request
\* waits, the only permits taken are those of requests inside an HTTP attempt
C12_NoPermitWhileWaiting ==
    \A c \in Callers :
        Waiting(c) => semaphore = safe_conn - Cardinality(InAttempt)

\* some request received 429 and its backoff has not ended
CoolingDown == \E c \in Callers : req[c].op = "api" /\ req[c].pc = "sleep429"

\* C13: once a request received 429 and the cooldown is set, no caller issues
\* a request to the backend until the cooldown has elapsed
C13_SharedCooldown ==
    [][CoolingDown =>
          \A d \in Callers : (req'[d].pc = "get" => req[d].pc = "get")]_vars

\* the requests that are inside `async with self.semaphore`
PermitHolders == {c \in Callers : HoldsPermit(req[c])}

C15_RefreshForced ==
    [][\A c \in Callers :
          /\ (req[c].pc = "get" /\ req'[c].last = "401" /\ req[c].attempt < Retries)
                => req'[c].pc = "auth_lock"
          /\ (req[c].op = "api" /\ req[c].pc = "auth_lock" /\ issued = 0
                /\ req'[c].pc /= "auth_lock") => req'[c].pc = "post"]_vars

\* C16: a request that receives 401 again after a refresh POST was made for it
\* ends there with the auth error raised to its caller
C16_RepeatedUnauthorizedIsFatal ==
    [][\A c \in Callers :
          (req[c].pc = "get" /\ req[c].posts >= 1
             /\ req'[c].calls = req[c].calls + 1 /\ req'[c].last = "401")
          => (req'[c].pc = "done" /\ req'[c].result = "Unauthorized")]_vars

\* C17: when the refresh made for a 401 is rejected, _api_request ends there
\* with that failure raised to its caller: no further GET, no further POST
C17_RejectedRefreshIsFatal ==
    [][\A c \in Callers :
          (req[c].op = "api" /\ req[c].pc = "post" /\ req'[c].pc /= "post"
             /\ req'[c].post = "rejected")
          => (req'[c].pc = "done" /\ req'[c].result = "RefreshFailed")]_vars

\* C18: a call of _refresh_access_token that fails raises to its caller and
\* leaves config.access_token, config.token_expiry and the authorization header
\* as they were before the call
C18_FailedRefreshKeepsCredential ==
    [][\A c \in Callers :
          (req[c].op = "refresh" /\ req[c].pc = "post" /\ req'[c].pc = "done"
             /\ req'[c].result = "RefreshFailed")
          => /\ access_token' = access_token
             /\ token_expiry' = token_expiry
             /\ authorization' = authorization]_vars

\* C24: a 429 uses up an attempt like any other response: a request answered
\* 429 every time makes retries + 1 attempts and then ends with a terminal
\* error for its caller, and after each 429 it sleeps before the loop goes on.
C24_RateLimitedCounts ==
    /\ [](\A c \in Callers :
            /\ req[c].calls <= Retries + 1
            /\ (req[c].pc = "done" /\ req[c].hist = "429") =>
                  (req[c].calls = Retries + 1 /\ req[c].result = "ConnectionFailed"))
    /\ [][\A c \in Callers :
            /\ (req[c].pc = "get" /\ req'[c].calls = req[c].calls + 1 /\ req'[c].last = "429")
                  => (req'[c].pc = "sleep429" /\ req'[c].attempt = req[c].attempt)
            /\ (req[c].pc = "sleep429" /\ req'[c].pc /= "sleep429")
                  => \/ req'[c].pc = "acquire" /\ req'[c].attempt = req[c].attempt + 1
                     \/ req'[c].pc = "done" /\ req[c].attempt = Retries]_vars

\* a request answered 429 on each of its attempts has ended
C24_Witness ==
    \E c \in Callers :
        /\ req[c].pc = "done" /\ req[c].hist = "429"
        /\ req[c].calls = Retries + 1 /\ req[c].result = "ConnectionFailed"

\* C35: a response with an unclassified error status (raise_for_status) is
\* retried on each attempt but the last, where that error is raised to the
\* caller; no request makes more than retries + 1 HTTP attempts; and a
\* successful response ends the request, no attempt follows it.
C35_ErrorStatusRetried ==
    \A c \in Callers :
        /\ req[c].calls <= Retries + 1
        /\ (req[c].last = "error" /\ req[c].pc = "done") =>
              (req[c].attempt = Retries /\ req[c].result = "HTTPError")
        /\ req[c].last = "200" => (req[c].pc = "done" /\ req[c].result = "ok")

\* C25: after a 429 with a Retry-After hint the wait equals the hint; without
\* a hint it is base * 2^attempt plus the jitter; successive waits of one
\* request without hints do not shrink in their deterministic part; and no
\* wait is negative.
C25_Backoff ==
    \A i \in 1..Len(backoff.waits) :
        LET w == backoff.waits[i] IN
        /\ w.wait >= 0
        /\ w.hint /= <<>> => w.wait = w.hint[1]
        /\ w.hint = <<>> => w.wait = DefaultRetryAfter * 2 ^ w.attempt + w.jitter
        /\ \A k \in 1..Len(backoff.waits) :
              (i < k /\ w.hint = <<>> /\ backoff.waits[k].hint = <<>>)
                 => w.wait - w.jitter <= backoff.waits[k].wait - backoff.waits[k].jitter

\* ------------------------------------------------------------------------
\* Properties of the paginated listings
\* ------------------------------------------------------------------------
\* every request of the call was answered with its page
AllAnswered ==
    /\ listing.first = "ok"
    /\ \A o \in PageOffsets(listing.total) : listing.page[o] = "ok"

\* the listing, item by item
WholeListing == [i \in 1..listing.total |-> i - 1]

\* C19: when the listing has more items than a page and every page request is
\* answered, _turbo_fetch_list returns all the items of the listing, each
\* once, in ascending offset order, in whatever order the concurrently
\* fetched pages completed.
C19_CompleteInOrder ==
    (/\ listing.fn = "turbo" /\ listing.pc = "done"
     /\ listing.total > PageSize /\ AllAnswered)
    => listing.items = WholeListing

\* 237 items, the third page answered before the second
C19_Witness ==
    /\ listing.fn = "turbo" /\ listing.pc = "done"
    /\ listing.total = 237 /\ AllAnswered
    /\ listing.order = <<2 * PageSize, PageSize>>
    /\ Len(listing.items) = 237

C21_FailedPageIsEmpty ==
    (listing.fn = "turbo" /\ listing.pc = "done") =>
        /\ ~listing.raised
        /\ listing.items = (IF listing.first = "ok" THEN Page(listing.total, 0) ELSE <<>>)
                            \o Gathered(listing)

\* ------------------------------------------------------------------------
\* Properties of the fan-in stream
\* ------------------------------------------------------------------------
Cnt(seq, x) == Cardinality({i \in 1..Len(seq) : seq[i] = x})

\* sentinels of producer p taken from the queue by the consumer
Received(p) == Cnt(stream.log, Sentinel(p)) - Cnt(stream.q, Sentinel(p))

\* the batches put on the stream's queue, in the order of the puts
BatchesPut == SelectSeq(stream.log, LAMBDA x : ~IsSentinel(x))

StreamSafe ==
    /\ stream.pc = "ended" => (\A p \in Endpoints : Received(p) = 1) /\ stream.q = <<>>
    /\ stream.pc = "running" => \E p \in Endpoints : Received(p) = 0
    /\ \A p \in Endpoints :
          /\ Cnt(stream.log, Sentinel(p)) <= 1
          /\ stream.prod[p].pc = "ended" => Cnt(stream.log, Sentinel(p)) = 1
          /\ \A i, k \in 1..Len(stream.log) :
                (i < k /\ stream.log[i] = Sentinel(p)) => stream.log[k].p /= p
    /\ \A i, k \in 1..Len(stream.log) : i /= k => stream.log[i] /= stream.log[k]
    /\ Len(stream.out) <= Len(BatchesPut)
    /\ stream.out = SubSeq(BatchesPut, 1, Len(stream.out))
    /\ stream.pc = "ended" => stream.out = BatchesPut

\* C22: the stream ends exactly when the sentinel of each producer has been
\* received; each producer puts one sentinel, after all its batches; every
\* non-empty batch a producer fetched is yielded once and before the end; and
\* a started stream always ends, also when a producer raises or its first
\* request fails.
C22_FanIn ==
    /\ []StreamSafe
    /\ (stream.pc = "running") ~> (stream.pc = "ended")

\* a stream that ended although one producer raised, after yielding the two
\* batches of the other
C22_Witness ==
    /\ stream.pc = "ended"
    /\ stream.prod["albums"].raised
    /\ stream.prod["epsandsingles"].total = PageSize + 50
    /\ stream.out = <<Batch("epsandsingles", 0), Batch("epsandsingles", PageSize)>>

\* C29: the first batch of albums is put on the job queue before the pages of
\* both listing queries have all been fetched: no complete listing of the
\* artist has been awaited when the first PendingAlbum is queued.
C29_IncrementalFeed ==
    [][(search.put = 0 /\ search'.put = 1) => ~search.full]_vars

\* C37: for one artist submission each listing page (endpoint, offset) is
\* requested at most once across the name lookup and the album stream.
C37_NoRedundantPage ==
    \A p \in Endpoints, o \in AllOffsets : search.reqs[p][o] <= 1

\* the concatenation of a sequence of slices
RECURSIVE Concat(_)
Concat(ss) == IF ss = <<>> THEN <<>> ELSE Head(ss) \o Concat(Tail(ss))

\* C36: the slices handed to gather are consecutive chunks of at most 20
\* tracks, none empty, whose concatenation is the track list; a slice is
\* started only when every track of the slices before it has ended, so at
\* most 20 tracks are in progress; and a track that raises stops no other:
\* download returns after every track has ended, however many raised.
C36_SequentialBatches ==
    /\ [](LET g == playlist.gathered IN
            /\ \A k \in 1..Len(g) : 0 < Len(g[k]) /\ Len(g[k]) <= 20
            /\ Concat(g) = [i \in 1..Len(Concat(g)) |-> i]
            /\ Len(Concat(g)) <= playlist.total
            /\ playlist.pending <= 20
            /\ playlist.ended + playlist.pending = Len(Concat(g))
            /\ playlist.pc = "returned" =>
                  (Len(Concat(g)) = playlist.total /\ playlist.ended = playlist.total))
    /\ [][Len(playlist'.gathered) > Len(playlist.gathered) =>
            (playlist.pending = 0 /\ playlist.ended = Len(Concat(playlist.gathered)))]_vars

\* a playlist of more than two full chunks has been downloaded although
\* tracks of every chunk raised
C36_Witness ==
    /\ playlist.pc = "returned"
    /\ playlist.total > 2 * track_resolve_chunk_size
    /\ Len(playlist.gathered) = 3
    /\ playlist.raised >= 3
    /\ playlist.ended = playlist.total

\* C39: for a task with total > 0 the advances its callback has put on the
\* update queue never add up to more than total, whatever values the callback
\* is called with and however the worker thread is interleaved with it.
C39_AdvancesWithinTotal ==
    progress.total > 0 => progress.enq <= progress.total

\* ------------------------------------------------------------------------
\* Properties of get_downloadable
\* ------------------------------------------------------------------------
\* C31: within one try the legacy endpoint is requested only right after the
\* v4 request of the same try failed, and only once; a call that ends
\* without a usable stream ends with NonStreamableError and with nothing else.
C31_Fallback ==
    LET L == downloadable.log IN
    /\ \A i \in 1..Len(L) :
          L[i].ep = "legacy" =>
             /\ i > 1
             /\ L[i - 1].ep = "v4" /\ L[i - 1].got = "fail"
             /\ L[i - 1].phase = L[i].phase /\ L[i - 1].q = L[i].q
    /\ \A i \in 1..(Len(L) - 1) :
          (L[i].ep = "v4" /\ L[i].got /= "fail") => L[i + 1].ep = "v4"
    /\ downloadable.pc = "done" => downloadable.result \in {"flac", "m4a", "NonStreamable"}
    /\ (downloadable.pc = "done" /\ L[Len(L)].got /= downloadable.result)
          => downloadable.result = "NonStreamable"

\* every request of every try failed, the legacy ones included
C31_Witness ==
    /\ downloadable.pc = "done" /\ downloadable.result = "NonStreamable"
    /\ downloadable.quality = 3
    /\ Len(downloadable.log) = 16
    /\ \A i \in 1..16 : downloadable.log[i].got = "fail"

\* C38: only qualities up to the configured one are requested, from the
\* highest down, first for FLAC and then again for M4A/AAC; an M4A/AAC stream
\* is accepted only after every such quality was tried for FLAC; the call
\* returns with the first answer that has the codec wanted at that point and
\* raises NonStreamableError when there is none.
C38_QualityOrder ==
    LET L == downloadable.log IN
    /\ \A i \in 1..Len(L) : L[i].q <= downloadable.quality /\ L[i].q >= 0
    /\ \A i, k \in 1..Len(L) :
          i < k => /\ L[i].phase <= L[k].phase
                   /\ L[i].phase = L[k].phase => L[i].q >= L[k].q
    /\ downloadable.result = "m4a" =>
          \A q \in 0..downloadable.quality : \E i \in 1..Len(L) : L[i].phase = 1 /\ L[i].q = q
    /\ \A i \in 1..(Len(L) - 1) : L[i].got /= Wanted(L[i].phase)
    /\ downloadable.result \in {"flac", "m4a"} =>
          /\ downloadable.pc = "done"
          /\ L[Len(L)].got = downloadable.result
          /\ Wanted(L[Len(L)].phase) = downloadable.result
    /\ (downloadable.pc = "done" /\ L[Len(L)].got /= Wanted(L[Len(L)].phase))
          => downloadable.result = "NonStreamable"
    /\ downloadable.pc /= "done" => downloadable.result = "none"

\* an M4A stream accepted for the highest quality after the FLAC loop passed
\* over an M4A answer for each of the four qualities
C38_Witness ==
    /\ downloadable.quality = 3 /\ downloadable.result = "m4a"
    /\ Len(downloadable.log) = 5
    /\ \A i \in 1..4 : downloadable.log[i].got = "m4a"
    /\ downloadable.log[5].q = 3

\* ------------------------------------------------------------------------
\* Properties of resolve() and rip() over the ledger and the disk
\* ------------------------------------------------------------------------
TrackKinds == {"PendingTrack", "PendingSingle", "PendingPlaylistTrack"}

\* resolve() began with the id marked downloaded and the file on disk
DoneAndPresent(j) == job[j].kind \in TrackKinds /\ job[j].led0 /\ job[j].file0

\* C6 as stated: an id marked downloaded whose file exists is skipped by
\* resolve() without any call of get_metadata or get_downloadable
C6_SkipWithoutNetwork ==
    \A j \in Jobs : DoneAndPresent(j) =>
        /\ job[j].pc \notin {"meta", "stream"}
        /\ job[j].meta \in {"none", "preloaded"}
        /\ job[j].dl = "none"
        /\ job[j].resolved \in {"none", "None"}

\* C6 amended: for such an id resolve() never returns a Track and nothing is
\* transferred. PendingTrack and PendingSingle call get_metadata and
\* get_downloadable before they look for the file, and return None once the
\* metadata is well formed and the stream lookup succeeds;
\* PendingPlaylistTrack never calls get_downloadable, and makes no network
\* call at all when it carries preloaded data
C6_IdempotentSkip ==
    \A j \in Jobs : DoneAndPresent(j) =>
        /\ job[j].resolved \in {"none", "None", "raised"}
        /\ job[j].xfers = 0
        /\ (job[j].resolved /= "none" /\ job[j].meta \in {"ok", "preloaded"}
              /\ job[j].dl \in {"none", "ok"}) => job[j].resolved = "None"
        /\ job[j].kind = "PendingPlaylistTrack" => job[j].dl = "none"
        /\ job[j].preloaded =>
              (job[j].pc /= "meta" /\ job[j].meta \in {"none", "preloaded", "bad", "empty"})
        /\ (job[j].kind /= "PendingPlaylistTrack" /\ job[j].resolved = "None"
              /\ job[j].meta = "ok") => job[j].dl /= "none"

C6_Witness ==
    /\ \E j \in Jobs : /\ DoneAndPresent(j) /\ job[j].kind = "PendingTrack"
                       /\ job[j].resolved = "None" /\ job[j].dl = "ok"
    /\ \E j \in Jobs : /\ DoneAndPresent(j) /\ job[j].preloaded
                       /\ job[j].resolved = "None"

\* C23: downloadable.download is called at most twice for one item, the
\* second call is made only in the retry that follows a failed first attempt,
\* and download() marks the id failed only when the second attempt fails.
C23_RetriedOnce ==
    [][\A j \in Jobs :
         /\ job'[j].xfers <= 2
         /\ job'[j].xfers \in {job[j].xfers, job[j].xfers + 1}
         /\ (job[j].xfers >= 1 /\ job'[j].xfers = job[j].xfers + 1) => job[j].pc = "xfer2"
         /\ job'[j].pc = "xfer2" => job[j].pc \in {"xfer1", "xfer2"}
         /\ (job[j].pc = "xfer1" /\ job'[j] /= job[j]) => failed' = failed
         /\ (job[j].pc = "xfer2" /\ job'[j] /= job[j] /\ failed' /= failed)
               => /\ failed' = failed \cup {job[j].id}
                  /\ job'[j].kind /= "PendingVideo" => (job'[j].xfers = 2 /\ job'[j].fail2)
    ]_vars

\* a track whose two transfers failed and which is marked failed
C23_Witness ==
    \E j \in Jobs :
        /\ job[j].kind /= "PendingVideo"
        /\ job[j].xfers = 2 /\ job[j].fail2
        /\ job[j].id \in failed

\* C27: a track id is recorded Failed only when the backend reported the
\* track unavailable or its transfer failed twice; resolving an id again while
\* or after its first acquisition succeeds never records it Failed.
C27_FailedOnlyWhenTerminal ==
    [][\A j \in Jobs :
         (job'[j] /= job[j] /\ job[j].kind /= "PendingVideo" /\ failed' /= failed)
            => \/ job'[j].dl = "NonStreamable"
               \/ job'[j].meta \in {"NonStreamable", "empty"}
               \/ job'[j].fail2]_vars

\* C7: an item whose transfer failed on the first attempt and on the retry is
\* recorded failed and set_downloaded is never called for it
C7_FailedTwiceStaysFailed ==
    \A j \in Jobs : job[j].fail2 => (job[j].id \in failed /\ ~job[j].marked)

\* C8: a submitted track whose metadata fetch ends with 404 (NonStreamableError)
\* is recorded Failed in the ledger and reported as one failure
C8_NotFoundRecordedFailed ==
    \A j \in Jobs :
        (job[j].kind = "PendingSingle" /\ job[j].meta = "NonStreamable"
           /\ job[j].pc = "end") => (job[j].id \in failed /\ job[j].out = "Error")

\* C9: an id marked downloaded whose file is absent is not skipped: with the
\* metadata fetched and a stream on offer, resolve() returns a Track
C9_MissingFileReacquired ==
    \A j \in Jobs :
        (job[j].kind \in TrackKinds /\ job[j].led0 /\ ~job[j].file0
           /\ job[j].resolved /= "none" /\ job[j].meta \in {"ok", "preloaded"}
           /\ job[j].dl \in {"ok", "already"}) => job[j].resolved = "Media"

\* the job is past the place where the code looks for the file
PastFileCheck(j) ==
    \/ job[j].resolved = "Media" /\ job[j].pc \in {"post", "end"}
    \/ job[j].kind = "PendingPlaylistTrack" /\ job[j].meta \in {"ok", "preloaded"}
         /\ job[j].pc = "end"

TypeApi ==
    /\ semaphore \in 0..safe_conn
    /\ \A c \in Callers : req[c].attempt \in 0..Retries

====
